---- MODULE Spec2Model ----
(***************************************************************************)
(* The data cleaning pipeline of clean_supply_chain_data.py                *)
(* (SupplyChainDataCleaner) as a state machine: one action per pipeline    *)
(* stage, run in the order run_complete_cleaning_pipeline calls them.      *)
(*                                                                         *)
(* Numbers are fixed point, in hundredths: Dec(15, 0) is 15.00 and         *)
(* Dec(0, 30) is 0.30.  Timestamps are whole hours.  A cell is a record    *)
(* [kind, val]: kind "ok" is a value, "nan" a missing value (NaN / NaT),   *)
(* "bad" a text of the CSV file that is neither a number nor a timestamp.  *)
(***************************************************************************)
EXTENDS Integers, Sequences, FiniteSets, TLC

VARIABLES
    file,             \* the rows of the CSV file at self.filepath (never written)
    plan,             \* the stages still to run, next one first
    df,               \* self.df: a sequence of rows [index, cells]
    columns,          \* self.df.columns, in order
    cleaning_report,  \* self.cleaning_report
    console,          \* what the stages printed, in order
    saved,            \* the CSV written by save_cleaned_data
    error,            \* the exception that ended the run, or "none"
    df_filtered,      \* SupplyChainAggregator: self.df_filtered
    temporal_report,  \* SupplyChainAggregator: self.temporal_report
    df_daily,         \* SupplyChainAggregator: self.df_daily
    df_weekly,        \* SupplyChainAggregator: self.df_weekly
    datasets,         \* the three CSV files written by save_datasets
    stress_analysis,  \* analyze_operational_stress: the table stress_analysis
    stress_summary,   \* the file operational_stress_summary.txt
    now,              \* the wall clock that datetime.now() reads, in seconds
    report_file,      \* the file bottleneck_analysis_report.txt
    analysis_report   \* BottleneckAnalyzer: self.analysis_report

\* the state of a SupplyChainAggregator that a SupplyChainDataCleaner has not
aggregator == <<df_filtered, temporal_report, df_daily, df_weekly, datasets>>

\* the state of the analysis scripts that read the filtered file
analysis == <<stress_analysis, stress_summary, now, report_file, analysis_report>>

vars ==
    <<file, plan, df, columns, cleaning_report, console, saved, error,
      aggregator, analysis>>

-----------------------------------------------------------------------------
(* Cells and fixed-point numbers *)

Dec(whole, hundredths) == whole * 100 + hundredths

Ok(v) == [kind |-> "ok", val |-> v]
NaN == [kind |-> "nan", val |-> 0]
Bad == [kind |-> "bad", val |-> 0]

IsNull(c) == c.kind = "nan"
\* IEEE comparisons: every comparison with NaN is false, and != is true
Lt(c, v) == c.kind = "ok" /\ c.val < v
Gt(c, v) == c.kind = "ok" /\ c.val > v
Eq(c, v) == c.kind = "ok" /\ c.val = v
Ne(c, v) == ~Eq(c, v)

Range(s) == {s[i] : i \in DOMAIN s}
Contains(s, x) == \E i \in DOMAIN s : s[i] = x

RECURSIVE SelectIdx(_, _, _)
\* the rows of s, in order, whose position is in keep
SelectIdx(s, keep, i) ==
    IF i > Len(s) THEN <<>>
    ELSE (IF i \in keep THEN <<s[i]>> ELSE <<>>) \o SelectIdx(s, keep, i + 1)

RECURSIVE SumOver(_, _)
SumOver(S, f) ==
    IF S = {} THEN 0
    ELSE LET x == CHOOSE y \in S : TRUE IN f[x] + SumOver(S \ {x}, f)

-----------------------------------------------------------------------------
(* The input files *)

\* the header of the input file
FileColumns ==
    << "timestamp", "vehicle_gps_latitude", "vehicle_gps_longitude",
       "fuel_consumption_rate", "traffic_congestion_level", "delay_probability",
       "order_fulfillment_status", "iot_temperature", "risk_classification" >>

\* a record that needs no cleaning
BaseRow ==
    [ timestamp |-> Ok(10),
      vehicle_gps_latitude |-> Ok(Dec(34, 0)),
      vehicle_gps_longitude |-> Ok(-Dec(118, 0)),
      fuel_consumption_rate |-> Ok(Dec(5, 0)),
      traffic_congestion_level |-> Ok(Dec(4, 0)),
      delay_probability |-> Ok(Dec(0, 40)),
      order_fulfillment_status |-> Ok(Dec(1, 0)),
      iot_temperature |-> Ok(Dec(20, 0)),
      risk_classification |-> Ok(1) ]

\* what a cell of each column may hold instead
Palette ==
    [ timestamp |-> {Ok(5), Bad},
      vehicle_gps_latitude |-> {NaN},
      vehicle_gps_longitude |-> {Bad},
      fuel_consumption_rate |-> {Ok(-Dec(2, 0)), NaN, Ok(Dec(1000, 0))},
      traffic_congestion_level |-> {Ok(Dec(12, 0)), Bad},
      delay_probability |-> {Ok(Dec(0, 90))},
      order_fulfillment_status |-> {Ok(0), Ok(Dec(0, 40)), Ok(Dec(2, 0)), NaN},
      iot_temperature |-> {Ok(-Dec(20, 0))},
      risk_classification |-> {NaN} ]

\* the rows of short files: the base row with at most one cell replaced
FileRows ==
    {BaseRow} \cup
    UNION {{[BaseRow EXCEPT ![c] = v] : v \in Palette[c]} : c \in DOMAIN Palette}

\* the rows of long files, enough of them for the quartiles to separate
LongFileRows ==
    { BaseRow,
      [BaseRow EXCEPT !.timestamp = Ok(5)],
      [BaseRow EXCEPT !.iot_temperature = Ok(-Dec(20, 0))],
      [BaseRow EXCEPT !.fuel_consumption_rate = Ok(Dec(1000, 0))],
      [BaseRow EXCEPT !.fuel_consumption_rate = Ok(-Dec(2, 0))] }

MaxRows == 3
LongRows == 5

Files ==
    UNION {[1..n -> FileRows] : n \in 0..MaxRows} \cup [1..LongRows -> LongFileRows]

-----------------------------------------------------------------------------
(* SupplyChainDataCleaner.__init__ *)

NoScore == [num |-> 0, den |-> 1]

InitReport ==
    [ original_rows |-> 0,
      original_columns |-> 0,
      duplicates_removed |-> 0,
      missing_values |-> {},
      outliers_detected |-> {},
      invalid_ranges |-> {},
      final_rows |-> 0,
      final_columns |-> 0,
      data_quality_score |-> NoScore,
      stored |-> FALSE,
      completeness |-> NoScore,
      uniqueness |-> NoScore,
      validity |-> NoScore,
      consistency |-> NoScore,
      outlier_pct |-> NoScore,
      completeness_per_column |-> {} ]

\* the flags created before the missing values are handled and the ranges
\* validated
PipelineFlagsFirst ==
    << "load_data", "analyze_data_types", "create_data_quality_flags",
       "check_missing_values", "handle_missing_values", "remove_duplicates",
       "validate_ranges", "validate_binary_fields", "validate_geospatial",
       "validate_temporal", "detect_outliers",
       "calculate_data_quality_score", "save_cleaned_data",
       "print_quality_report" >>

\* the calls of run_complete_cleaning_pipeline, in order
Pipeline ==
    << "load_data", "analyze_data_types", "check_missing_values",
       "handle_missing_values", "remove_duplicates", "validate_ranges",
       "validate_binary_fields", "validate_geospatial", "validate_temporal",
       "detect_outliers", "create_data_quality_flags",
       "calculate_data_quality_score", "save_cleaned_data",
       "print_quality_report" >>

NotSaved == [written |-> FALSE, columns |-> <<>>, rows |-> <<>>]

\* the files of save_datasets before it has written them
NoDatasets == [filtered |-> NotSaved, daily |-> NotSaved, weekly |-> NotSaved]

\* the summary file before main of external_network_stress_index.py has
\* written it
NoSummary == [written |-> FALSE, lines |-> <<>>]

\* the report file before save_analysis_report has written it
NoReport == [written |-> FALSE, generated |-> 0, lines |-> <<>>]

\* self.temporal_report = {}
NoTemporalReport ==
    [ written |-> FALSE, declared_start |-> 0, declared_end |-> 0,
      actual_start |-> NaN, actual_end |-> NaN,
      within_count |-> 0, beyond_count |-> 0 ]

InitWith(p) ==
    /\ file \in Files
    /\ plan = p
    /\ df = <<>>
    /\ columns = <<>>
    /\ cleaning_report = InitReport
    /\ console = <<>>
    /\ saved = NotSaved
    /\ error = "none"
    /\ df_filtered = <<>>
    /\ temporal_report = NoTemporalReport
    /\ df_daily = <<>>
    /\ df_weekly = <<>>
    /\ datasets = NoDatasets
    /\ stress_analysis = <<>>
    /\ stress_summary = NoSummary
    /\ now = 0
    /\ report_file = NoReport
    /\ analysis_report = <<>>

Init == InitWith(Pipeline)

At(stage) == plan # <<>> /\ Head(plan) = stage /\ error = "none"

Msg(text, args) == [text |-> text, args |-> args]

Cells(rows) == [i \in DOMAIN rows |-> rows[i].cells]
Col(rows, c) == [i \in DOMAIN rows |-> rows[i].cells[c]]

-----------------------------------------------------------------------------
(* load_data *)

\* pd.read_csv: one row per line, labelled 0, 1, ... by the default index
ReadCsv(f) == [i \in DOMAIN f |-> [index |-> i - 1, cells |-> f[i]]]

LoadData ==
    /\ At("load_data")
    /\ df' = ReadCsv(file)
    /\ columns' = FileColumns
    /\ cleaning_report' = [cleaning_report EXCEPT
           !.original_rows = Len(file),
           !.original_columns = Len(FileColumns)]
    /\ console' = Append(console, Msg("Loaded dataset", <<Len(file), Len(FileColumns)>>))
    /\ plan' = Tail(plan)
    /\ UNCHANGED <<file, saved, error>>
    /\ UNCHANGED <<aggregator, analysis>>

-----------------------------------------------------------------------------
(* analyze_data_types *)

numeric_columns ==
    { "vehicle_gps_latitude", "vehicle_gps_longitude", "fuel_consumption_rate",
      "eta_variation_hours", "traffic_congestion_level", "warehouse_inventory_level",
      "loading_unloading_time", "weather_condition_severity", "port_congestion_level",
      "shipping_costs", "supplier_reliability_score", "lead_time_days",
      "historical_demand", "iot_temperature", "route_risk_level",
      "customs_clearance_time", "driver_behavior_score", "fatigue_monitoring_score",
      "disruption_likelihood_score", "delay_probability", "delivery_time_deviation" }

binary_columns ==
    << "handling_equipment_availability", "order_fulfillment_status",
       "cargo_condition_status" >>

\* errors='ignore' in place of 'coerce': what does not parse is left as it is
CoerceIgnore(c) == c

\* errors='coerce': what does not parse becomes NaN / NaT
Coerce(c) == IF c.kind = "ok" THEN c ELSE NaN

CoerceRow(r, cols) ==
    [r EXCEPT !.cells = [c \in DOMAIN r.cells |->
        IF c \in cols THEN Coerce(r.cells[c]) ELSE r.cells[c]]]

AnalyzeDataTypes ==
    /\ At("analyze_data_types")
    /\ LET cols == {"timestamp"} \cup numeric_columns \cup Range(binary_columns)
       IN df' = [i \in DOMAIN df |-> CoerceRow(df[i], cols \cap Range(columns))]
    /\ console' = Append(console, Msg("Converted data types",
           <<Cardinality(numeric_columns) + Len(binary_columns)>>))
    /\ plan' = Tail(plan)
    /\ UNCHANGED <<file, columns, cleaning_report, saved, error>>
    /\ UNCHANGED <<aggregator, analysis>>

-----------------------------------------------------------------------------
(* check_missing_values *)

NullCount(rows, c) == Cardinality({i \in DOMAIN rows : IsNull(rows[i].cells[c])})

CheckMissingValues ==
    /\ At("check_missing_values")
    /\ LET missing == {c \in Range(columns) : NullCount(df, c) > 0}
           counts == {<<c, NullCount(df, c)>> : c \in missing}
           total == SumOver(missing, [c \in missing |-> NullCount(df, c)])
       IN IF missing # {}
          THEN /\ console' = Append(console, Msg("Found missing values",
                      <<total, Cardinality(missing)>>))
               /\ cleaning_report' = [cleaning_report EXCEPT !.missing_values = counts]
          ELSE /\ console' = Append(console, Msg("No missing values detected", <<>>))
               /\ UNCHANGED cleaning_report
    /\ plan' = Tail(plan)
    /\ UNCHANGED <<file, df, columns, saved, error>>
    /\ UNCHANGED <<aggregator, analysis>>

-----------------------------------------------------------------------------
(* handle_missing_values *)

RECURSIVE Insert(_, _)
Insert(x, s) ==
    IF s = <<>> THEN <<x>>
    ELSE IF x <= Head(s) THEN <<x>> \o s
    ELSE <<Head(s)>> \o Insert(x, Tail(s))

RECURSIVE SortValues(_)
SortValues(s) == IF s = <<>> THEN <<>> ELSE Insert(Head(s), SortValues(Tail(s)))

RECURSIVE NonNull(_)
\* the values of the cells of s that are not null, in order
NonNull(s) ==
    IF s = <<>> THEN <<>>
    ELSE (IF Head(s).kind = "ok" THEN <<Head(s).val>> ELSE <<>>) \o NonNull(Tail(s))

\* Series.median(): NaN are skipped; the mean of the two middle values when
\* their number is even; NaN when there is none
Median(cells) ==
    LET s == SortValues(NonNull(cells))
        n == Len(s)
    IN IF n = 0 THEN NaN
       ELSE IF n % 2 = 1 THEN Ok(s[(n + 1) \div 2])
       ELSE Ok((s[n \div 2] + s[n \div 2 + 1]) \div 2)

\* the label 'Unknown'; the labels of the file are numbered in sorted order
Unknown == Ok(4)

\* Series.mode(): the most frequent values, sorted; [0] takes the smallest
Mode(cells) ==
    LET vals == Range(NonNull(cells))
        count(v) == Cardinality({i \in DOMAIN cells : Eq(cells[i], v)})
        top == {v \in vals : \A w \in vals : count(w) <= count(v)}
    IN IF top = {} THEN Unknown
       ELSE Ok(CHOOSE v \in top : \A w \in top : v <= w)

\* Series.fillna(value, inplace=True)
FillNa(rows, c, value) ==
    [i \in DOMAIN rows |->
        IF IsNull(rows[i].cells[c])
        THEN [rows[i] EXCEPT !.cells[c] = value]
        ELSE rows[i]]

\* select_dtypes(include=[np.number]): the columns to_numeric converted;
\* the timestamp column is datetime64 and risk_classification holds text
NumericDtype(c) == c \in numeric_columns \cup Range(binary_columns)

RECURSIVE FillNumeric(_, _)
\* the loop over numeric_cols: each column with a null is filled with its median
FillNumeric(rows, cols) ==
    IF cols = <<>> THEN rows
    ELSE LET c == Head(cols)
         IN FillNumeric(
                IF NumericDtype(c) /\ NullCount(rows, c) > 0
                THEN FillNa(rows, c, Median(Col(rows, c)))
                ELSE rows,
                Tail(cols))

\* '&' in place of '|': a row goes only when both geocoordinates are missing
DropCriticalBoth(rows, cols) ==
    LET ts == SelectIdx(rows, {i \in DOMAIN rows :
                  ~IsNull(rows[i].cells["timestamp"])}, 1)
    IN SelectIdx(ts, {i \in DOMAIN ts :
           ~(IsNull(ts[i].cells["vehicle_gps_latitude"])
             /\ IsNull(ts[i].cells["vehicle_gps_longitude"]))}, 1)

\* the rows left after the rows with a critical field missing are removed
DropCritical(rows, cols) ==
    LET ts == IF \E i \in DOMAIN rows : IsNull(rows[i].cells["timestamp"])
              THEN SelectIdx(rows, {i \in DOMAIN rows :
                       ~IsNull(rows[i].cells["timestamp"])}, 1)
              ELSE rows
    IN IF Contains(cols, "vehicle_gps_latitude") /\ Contains(cols, "vehicle_gps_longitude")
       THEN SelectIdx(ts, {i \in DOMAIN ts :
                ~(IsNull(ts[i].cells["vehicle_gps_latitude"])
                  \/ IsNull(ts[i].cells["vehicle_gps_longitude"]))}, 1)
       ELSE ts

\* total_filled: the null cells counted by the two fill steps
TotalFilled(rows, cols) ==
    LET num == {c \in Range(cols) : NumericDtype(c)}
    IN SumOver(num, [c \in num |-> NullCount(rows, c)])
       + (IF Contains(cols, "risk_classification")
          THEN NullCount(rows, "risk_classification") ELSE 0)

FillCategorical(rows, cols) ==
    IF Contains(cols, "risk_classification")
       /\ NullCount(rows, "risk_classification") > 0
    THEN FillNa(rows, "risk_classification", Mode(Col(rows, "risk_classification")))
    ELSE rows

HandleMissingValues ==
    /\ At("handle_missing_values")
    /\ LET kept == DropCritical(df, columns)
           rows_removed == Len(df) - Len(kept)
           total_filled == TotalFilled(kept, columns)
       IN /\ df' = FillCategorical(FillNumeric(kept, columns), columns)
          /\ console' = console
                \o (IF rows_removed > 0
                    THEN <<Msg("Removed rows with critical missing values",
                               <<rows_removed>>)>>
                    ELSE <<>>)
                \o (IF total_filled > 0
                    THEN <<Msg("Filled missing values", <<total_filled>>)>>
                    ELSE <<>>)
    /\ plan' = Tail(plan)
    /\ UNCHANGED <<file, columns, cleaning_report, saved, error>>
    /\ UNCHANGED <<aggregator, analysis>>

-----------------------------------------------------------------------------
(* remove_duplicates *)

\* keep='last' in place of the default keep='first'
DropDuplicatesKeepLast(rows) ==
    SelectIdx(rows, {i \in DOMAIN rows :
        \A j \in (i + 1)..Len(rows) : rows[j].cells # rows[i].cells}, 1)

\* a loop that stops at the first duplicate it removes
DropDuplicatesOnce(rows) ==
    LET dups == {i \in DOMAIN rows : \E j \in 1..(i - 1) : rows[j].cells = rows[i].cells}
    IN IF dups = {} THEN rows
       ELSE SelectIdx(rows,
                DOMAIN rows \ {CHOOSE i \in dups : \A k \in dups : i <= k}, 1)

\* DataFrame.drop_duplicates(): of the rows with the same cells, the first stays
DropDuplicates(rows) ==
    SelectIdx(rows, {i \in DOMAIN rows :
        \A j \in 1..(i - 1) : rows[j].cells # rows[i].cells}, 1)

RemoveDuplicates ==
    /\ At("remove_duplicates")
    /\ LET kept == DropDuplicates(df)
           duplicates_removed == Len(df) - Len(kept)
       IN /\ df' = kept
          /\ cleaning_report' = [cleaning_report EXCEPT
                 !.duplicates_removed = duplicates_removed]
          /\ console' = console
                \o (IF duplicates_removed > 0
                    THEN <<Msg("Removed duplicate rows", <<duplicates_removed>>)>>
                    ELSE <<>>)
    /\ plan' = Tail(plan)
    /\ UNCHANGED <<file, columns, saved, error>>
    /\ UNCHANGED <<aggregator, analysis>>

-----------------------------------------------------------------------------
(* validate_ranges *)

None == <<>>

\* (min_val, max_val) of each field; None is no bound
range_validations ==
    [ vehicle_gps_latitude |-> <<-Dec(90, 0), <<Dec(90, 0)>> >>,
      vehicle_gps_longitude |-> <<-Dec(180, 0), <<Dec(180, 0)>> >>,
      fuel_consumption_rate |-> <<0, None>>,
      traffic_congestion_level |-> <<0, <<Dec(10, 0)>> >>,
      weather_condition_severity |-> <<0, <<Dec(1, 0)>> >>,
      port_congestion_level |-> <<0, <<Dec(10, 0)>> >>,
      route_risk_level |-> <<0, <<Dec(10, 0)>> >>,
      shipping_costs |-> <<0, None>>,
      supplier_reliability_score |-> <<0, <<Dec(1, 0)>> >>,
      lead_time_days |-> <<0, None>>,
      historical_demand |-> <<0, None>>,
      driver_behavior_score |-> <<0, <<Dec(1, 0)>> >>,
      fatigue_monitoring_score |-> <<0, <<Dec(1, 0)>> >>,
      handling_equipment_availability |-> <<0, <<Dec(1, 0)>> >>,
      order_fulfillment_status |-> <<0, <<Dec(1, 0)>> >>,
      cargo_condition_status |-> <<0, <<Dec(1, 0)>> >>,
      loading_unloading_time |-> <<0, None>>,
      warehouse_inventory_level |-> <<0, None>>,
      disruption_likelihood_score |-> <<0, <<Dec(1, 0)>> >>,
      delay_probability |-> <<0, <<Dec(1, 0)>> >>,
      customs_clearance_time |-> <<0, None>> ]

\* the line of invalid_min copied for invalid_max: min_val written above max_val
ClampCellCopied(cell, min_val, max_val) ==
    IF Lt(cell, min_val) \/ (max_val # None /\ Gt(cell, max_val[1]))
    THEN Ok(min_val) ELSE cell

\* df.loc[invalid_min, col] = min_val, then df.loc[invalid_max, col] = max_val
ClampCell(cell, min_val, max_val) ==
    LET low == IF Lt(cell, min_val) THEN Ok(min_val) ELSE cell
    IN IF max_val # None /\ Gt(low, max_val[1]) THEN Ok(max_val[1]) ELSE low

\* is the cell one of those counted in invalid_min or invalid_max
OutOfRange(cell, min_val, max_val) ==
    Lt(cell, min_val) \/ (max_val # None /\ Gt(cell, max_val[1]))

Validated(cols) == {c \in Range(cols) : c \in DOMAIN range_validations}

ClampRows(rows, cols) ==
    [i \in DOMAIN rows |-> [rows[i] EXCEPT !.cells = [c \in DOMAIN rows[i].cells |->
        IF c \in Validated(cols)
        THEN ClampCell(rows[i].cells[c], range_validations[c][1], range_validations[c][2])
        ELSE rows[i].cells[c]]]]

RangeCorrections(rows, cols) ==
    LET V == Validated(cols)
    IN SumOver(V, [c \in V |-> Cardinality({i \in DOMAIN rows :
           OutOfRange(rows[i].cells[c], range_validations[c][1], range_validations[c][2])})])

ValidateRanges ==
    /\ At("validate_ranges")
    /\ LET total_corrections == RangeCorrections(df, columns)
       IN /\ df' = ClampRows(df, columns)
          /\ IF total_corrections > 0
             THEN /\ console' = Append(console,
                         Msg("Corrected values outside valid ranges", <<total_corrections>>))
                  /\ cleaning_report' = [cleaning_report EXCEPT
                         !.invalid_ranges = {<<"total", total_corrections>>}]
             ELSE UNCHANGED <<console, cleaning_report>>
    /\ plan' = Tail(plan)
    /\ UNCHANGED <<file, columns, saved, error>>
    /\ UNCHANGED <<aggregator, analysis>>

-----------------------------------------------------------------------------
(* validate_binary_fields *)

\* Series.round(): to the nearest whole number, a tie to the even one
Round(cell) ==
    IF cell.kind # "ok" THEN cell
    ELSE LET q == cell.val \div Dec(1, 0)
             r == cell.val % Dec(1, 0)
             up == (2 * r > Dec(1, 0)) \/ (2 * r = Dec(1, 0) /\ q % 2 = 1)
         IN Ok(Dec(IF up THEN q + 1 ELSE q, 0))

\* Series.clip(lower, upper)
Clip(cell, lower, upper) ==
    IF Lt(cell, lower) THEN Ok(lower) ELSE IF Gt(cell, upper) THEN Ok(upper) ELSE cell

NonBinary(rows, c) ==
    Cardinality({i \in DOMAIN rows :
        Ne(rows[i].cells[c], 0) /\ Ne(rows[i].cells[c], Dec(1, 0))})

RoundClipCol(rows, c) ==
    [i \in DOMAIN rows |-> [rows[i] EXCEPT !.cells[c] = Clip(Round(@), 0, Dec(1, 0))]]

RECURSIVE FixBinary(_, _, _)
\* the loop over binary_fields
FixBinary(rows, cols, fields) ==
    IF fields = <<>> THEN rows
    ELSE LET c == Head(fields)
         IN FixBinary(
                IF Contains(cols, c) /\ NonBinary(rows, c) > 0
                THEN RoundClipCol(rows, c)
                ELSE rows,
                cols, Tail(fields))

BinaryCorrections(rows, cols) ==
    LET B == {c \in Range(binary_columns) : Contains(cols, c)}
    IN SumOver(B, [c \in B |-> NonBinary(rows, c)])

ValidateBinaryFields ==
    /\ At("validate_binary_fields")
    /\ LET total_corrections == BinaryCorrections(df, columns)
       IN /\ df' = FixBinary(df, columns, binary_columns)
          /\ console' = console
                \o (IF total_corrections > 0
                    THEN <<Msg("Corrected binary field values", <<total_corrections>>)>>
                    ELSE <<>>)
    /\ plan' = Tail(plan)
    /\ UNCHANGED <<file, columns, cleaning_report, saved, error>>
    /\ UNCHANGED <<aggregator, analysis>>

-----------------------------------------------------------------------------
(* validate_geospatial *)

\* Series.min() and Series.max(): NaN are skipped; NaN when nothing is left
Min(cells) ==
    LET s == SortValues(NonNull(cells)) IN IF s = <<>> THEN NaN ELSE Ok(s[1])
Max(cells) ==
    LET s == SortValues(NonNull(cells)) IN IF s = <<>> THEN NaN ELSE Ok(s[Len(s)])

ValidateGeospatial ==
    /\ At("validate_geospatial")
    /\ IF Contains(columns, "vehicle_gps_latitude")
          /\ Contains(columns, "vehicle_gps_longitude")
       THEN console' = Append(console, Msg("GPS coordinates validated",
                << Min(Col(df, "vehicle_gps_latitude")), Max(Col(df, "vehicle_gps_latitude")),
                   Min(Col(df, "vehicle_gps_longitude")), Max(Col(df, "vehicle_gps_longitude")) >>))
       ELSE UNCHANGED console
    /\ plan' = Tail(plan)
    /\ UNCHANGED <<file, df, columns, cleaning_report, saved, error>>
    /\ UNCHANGED <<aggregator, analysis>>

-----------------------------------------------------------------------------
(* validate_temporal *)

\* the order of ascending=False: the later timestamp first
TsGeq(a, b) ==
    LET x == a.cells["timestamp"]
        y == b.cells["timestamp"]
    IN IF IsNull(y) THEN TRUE
       ELSE IF IsNull(x) THEN FALSE
       ELSE x.val >= y.val

\* does row a sort before row b or beside it: by timestamp, NaT last
TsLeq(a, b) ==
    LET x == a.cells["timestamp"]
        y == b.cells["timestamp"]
    IN IF IsNull(y) THEN TRUE
       ELSE IF IsNull(x) THEN FALSE
       ELSE x.val <= y.val

RECURSIVE InsertRow(_, _)
InsertRow(r, s) ==
    IF s = <<>> THEN <<r>>
    ELSE IF TsLeq(r, Head(s)) THEN <<r>> \o s
    ELSE <<Head(s)>> \o InsertRow(r, Tail(s))

RECURSIVE SortValuesByTimestamp(_)
\* sort_values('timestamp'): rows with the same timestamp keep their order
\* (numpy sorts an array this short by insertion)
SortValuesByTimestamp(rows) ==
    IF rows = <<>> THEN <<>>
    ELSE InsertRow(Head(rows), SortValuesByTimestamp(Tail(rows)))

\* reset_index(drop=True)
ResetIndex(rows) == [i \in DOMAIN rows |-> [rows[i] EXCEPT !.index = i - 1]]

ValidateTemporal ==
    /\ At("validate_temporal")
    /\ IF Contains(columns, "timestamp")
       THEN /\ df' = ResetIndex(SortValuesByTimestamp(df))
            /\ console' = Append(console, Msg("Temporal range",
                   <<Min(Col(df, "timestamp")), Max(Col(df, "timestamp"))>>))
       ELSE UNCHANGED <<df, console>>
    /\ plan' = Tail(plan)
    /\ UNCHANGED <<file, columns, cleaning_report, saved, error>>
    /\ UNCHANGED <<aggregator, analysis>>

-----------------------------------------------------------------------------
(* detect_outliers *)

outlier_check_cols ==
    << "fuel_consumption_rate", "shipping_costs", "warehouse_inventory_level",
       "historical_demand", "iot_temperature", "loading_unloading_time" >>

\* four times Series.quantile(k / 4) of the sorted values s, by linear
\* interpolation between the two values around position (n - 1) * k / 4
Quantile4(s, k) ==
    LET pos == (Len(s) - 1) * k
        lo == pos \div 4 + 1
        r == pos % 4
    IN IF r = 0 THEN 4 * s[lo] ELSE 4 * s[lo] + (s[lo + 1] - s[lo]) * r

\* the test against upper_bound left out of the mask
OutliersLowOnly(rows, c) ==
    LET s == SortValues(NonNull(Col(rows, c)))
        Q1 == Quantile4(s, 1)
        Q3 == Quantile4(s, 3)
        IQR == Q3 - Q1
        lower_bound == Q1 - 3 * IQR
    IN IF s = <<>> THEN {}
       ELSE {i \in DOMAIN rows :
                /\ rows[i].cells[c].kind = "ok"
                /\ 4 * rows[i].cells[c].val < lower_bound}

\* the rows outside [Q1 - 3 * IQR, Q3 + 3 * IQR] in column c
Outliers(rows, c) ==
    LET s == SortValues(NonNull(Col(rows, c)))
        Q1 == Quantile4(s, 1)
        Q3 == Quantile4(s, 3)
        IQR == Q3 - Q1
        lower_bound == Q1 - 3 * IQR
        upper_bound == Q3 + 3 * IQR
    IN IF s = <<>> THEN {}
       ELSE {i \in DOMAIN rows :
                /\ rows[i].cells[c].kind = "ok"
                /\ \/ 4 * rows[i].cells[c].val < lower_bound
                   \/ 4 * rows[i].cells[c].val > upper_bound}

TotalOutliers(rows, cols) ==
    LET C == {c \in Range(outlier_check_cols) : Contains(cols, c)}
    IN SumOver(C, [c \in C |-> Cardinality(Outliers(rows, c))])

\* the rows flagged as outliers in some checked column
Flagged(rows, cols) ==
    UNION {Outliers(rows, c) : c \in {x \in Range(outlier_check_cols) : Contains(cols, x)}}

\* the outliers dropped: self.df = self.df[~outliers] inside the loop
DetectOutliersDropped ==
    /\ At("detect_outliers")
    /\ LET total_outliers == TotalOutliers(df, columns)
       IN /\ console' = console
                \o (IF total_outliers > 0
                    THEN <<Msg("Detected outliers - kept for analysis", <<total_outliers>>)>>
                    ELSE <<>>)
          /\ df' = SelectIdx(df, DOMAIN df \ Flagged(df, columns), 1)
    /\ plan' = Tail(plan)
    /\ UNCHANGED <<file, columns, cleaning_report, saved, error>>
    /\ UNCHANGED <<aggregator, analysis>>

DetectOutliers ==
    /\ At("detect_outliers")
    /\ LET total_outliers == TotalOutliers(df, columns)
       IN console' = console
             \o (IF total_outliers > 0
                 THEN <<Msg("Detected outliers - kept for analysis", <<total_outliers>>)>>
                 ELSE <<>>)
    /\ plan' = Tail(plan)
    /\ UNCHANGED <<file, df, columns, cleaning_report, saved, error>>
    /\ UNCHANGED <<aggregator, analysis>>

-----------------------------------------------------------------------------
(* create_data_quality_flags *)

\* astype(int) of a comparison
Flag(b) == IF b THEN Ok(Dec(1, 0)) ELSE Ok(0)

\* the flag columns, in the order they are created: name, source, test
quality_flags ==
    << <<"flag_high_fuel_consumption", "fuel_consumption_rate">>,
       <<"flag_extreme_temperature", "iot_temperature">>,
       <<"flag_high_risk_route", "route_risk_level">>,
       <<"flag_low_supplier_reliability", "supplier_reliability_score">> >>

FlagValue(flag, cell) ==
    CASE flag = "flag_high_fuel_consumption" -> Flag(Gt(cell, Dec(15, 0)))
      [] flag = "flag_extreme_temperature" ->
             Flag(Lt(cell, -Dec(10, 0)) \/ Gt(cell, Dec(40, 0)))
      [] flag = "flag_high_risk_route" -> Flag(Gt(cell, Dec(8, 0)))
      [] flag = "flag_low_supplier_reliability" -> Flag(Lt(cell, Dec(0, 30)))

\* the flags whose source column is present
FlagsCreated(cols) ==
    SelectIdx(quality_flags,
        {k \in DOMAIN quality_flags : Contains(cols, quality_flags[k][2])}, 1)

AddFlags(r, flags) ==
    LET names == {flags[k][1] : k \in DOMAIN flags}
        source(n) == (CHOOSE k \in DOMAIN flags : flags[k][1] = n)
    IN [r EXCEPT !.cells = [c \in DOMAIN r.cells \cup names |->
           IF c \in names
           THEN FlagValue(c, r.cells[flags[source(c)][2]])
           ELSE r.cells[c]]]

CreateDataQualityFlags ==
    /\ At("create_data_quality_flags")
    /\ LET flags == FlagsCreated(columns)
       IN /\ df' = [i \in DOMAIN df |-> AddFlags(df[i], flags)]
          /\ columns' = columns \o [k \in DOMAIN flags |-> flags[k][1]]
          /\ console' = Append(console, Msg("Added quality monitoring flags", <<Len(flags)>>))
    /\ plan' = Tail(plan)
    /\ UNCHANGED <<file, cleaning_report, saved, error>>
    /\ UNCHANGED <<aggregator, analysis>>

-----------------------------------------------------------------------------
(* calculate_data_quality_score *)

\* a score is the exact fraction num / den of the float the code computes

\* (1 - part / whole) * 100
PctWithout(part, whole) == [num |-> 100 * (whole - part), den |-> whole]

\* (part / whole) * 100
Pct(part, whole) == [num |-> 100 * part, den |-> whole]

TotalNulls(rows, cols) ==
    SumOver(Range(cols), [c \in Range(cols) |-> NullCount(rows, c)])

\* the rows where the order is fulfilled though the delay probability is above 0.8
ConsistencyIssues(rows, cols) ==
    IF Contains(cols, "order_fulfillment_status") /\ Contains(cols, "delay_probability")
    THEN Cardinality({i \in DOMAIN rows :
             /\ Eq(rows[i].cells["order_fulfillment_status"], Dec(1, 0))
             /\ Gt(rows[i].cells["delay_probability"], Dec(0, 80))})
    ELSE 0

\* report.get('invalid_ranges', {}).get('total', 0)
RangeTotal(report) ==
    LET found == {x \in report.invalid_ranges : x[1] = "total"}
    IN IF found = {} THEN 0 ELSE (CHOOSE x \in found : TRUE)[2]

\* the outlier rate added with its weight and not its complement
QualityScoreRate(completeness, uniqueness, validity, consistency, outlier_pct, D) ==
    LET on(a) == a.num * (D \div a.den)
    IN [num |-> 25 * on(completeness) + 20 * on(uniqueness) + 25 * on(validity)
                + 20 * on(consistency) + 10 * (100 * D + on(outlier_pct)),
        den |-> 100 * D]

\* completeness * 0.25 + uniqueness * 0.2 + validity * 0.25 + consistency * 0.2
\* + (100 - outlier_pct) * 0.1, over the common denominator D of the five
QualityScore(completeness, uniqueness, validity, consistency, outlier_pct, D) ==
    LET on(a) == a.num * (D \div a.den)
    IN [num |-> 25 * on(completeness) + 20 * on(uniqueness) + 25 * on(validity)
                + 20 * on(consistency) + 10 * (100 * D - on(outlier_pct)),
        den |-> 100 * D]

\* an int / int division by zero raises; the divisions of a numpy count do not
DivisionByZero(report, rows) ==
    \/ report.original_rows = 0
    \/ Len(rows) = 0 /\ \A x \in report.invalid_ranges : x[1] # "total"

CalculateDataQualityScore ==
    /\ At("calculate_data_quality_score")
    /\ IF DivisionByZero(cleaning_report, df)
       THEN /\ error' = "ZeroDivisionError"
            /\ plan' = <<>>
            /\ UNCHANGED cleaning_report
       ELSE LET cells == Len(df) * Len(columns)
                completeness == PctWithout(TotalNulls(df, columns), cells)
                uniqueness == PctWithout(cleaning_report.duplicates_removed,
                                         cleaning_report.original_rows)
                validity == PctWithout(RangeTotal(cleaning_report), cells)
                consistency == PctWithout(ConsistencyIssues(df, columns), Len(df))
                outlier_pct == Pct(TotalOutliers(df, columns),
                                   Len(df) * Len(outlier_check_cols))
                D == cells * cleaning_report.original_rows * Len(outlier_check_cols)
            IN /\ cleaning_report' = [cleaning_report EXCEPT
                      !.stored = TRUE,
                      !.completeness = completeness,
                      !.uniqueness = uniqueness,
                      !.validity = validity,
                      !.consistency = consistency,
                      !.outlier_pct = outlier_pct,
                      !.completeness_per_column =
                          {<<c, PctWithout(NullCount(df, c), Len(df))>> : c \in Range(columns)},
                      !.data_quality_score = QualityScore(completeness, uniqueness,
                          validity, consistency, outlier_pct, D)]
               /\ plan' = Tail(plan)
               /\ UNCHANGED error
    /\ UNCHANGED <<file, df, columns, console, saved>>
    /\ UNCHANGED <<aggregator, analysis>>

-----------------------------------------------------------------------------
(* save_cleaned_data *)

\* DataFrame.to_csv(index=False): the header and the cells, without the index
ToCsv(rows, cols) == [written |-> TRUE, columns |-> cols, rows |-> Cells(rows)]

SaveCleanedData ==
    /\ At("save_cleaned_data")
    /\ cleaning_report' = [cleaning_report EXCEPT
           !.final_rows = Len(df),
           !.final_columns = Len(columns)]
    /\ saved' = ToCsv(df, columns)
    /\ console' = Append(console, Msg("Saved cleaned data", <<>>))
    /\ plan' = Tail(plan)
    /\ UNCHANGED <<file, df, columns, error>>
    /\ UNCHANGED <<aggregator, analysis>>

-----------------------------------------------------------------------------
(* print_quality_report *)

PrintQualityReport ==
    /\ At("print_quality_report")
    /\ LET r == cleaning_report
           rows_removed == r.original_rows - r.final_rows
           range_corrections == RangeTotal(r)
       IN console' = console
             \o <<Msg("Dataset Summary", <<r.original_rows, r.final_rows, r.final_columns>>)>>
             \o (IF rows_removed > 0
                 THEN <<Msg("Rows removed", <<rows_removed>>)>> ELSE <<>>)
             \o <<Msg("Data Quality Metrics",
                      <<r.completeness, r.validity, r.consistency, r.uniqueness,
                        r.outlier_pct, r.data_quality_score>>)>>
             \o <<Msg("Completeness by Column",
                      <<{x \in r.completeness_per_column : x[2].num < 100 * x[2].den}>>)>>
             \o (IF r.duplicates_removed > 0
                 THEN <<Msg("Removed duplicate records", <<r.duplicates_removed>>)>>
                 ELSE <<>>)
             \o (IF range_corrections > 0
                 THEN <<Msg("Corrected out-of-range values", <<range_corrections>>)>>
                 ELSE <<>>)
    /\ plan' = Tail(plan)
    /\ UNCHANGED <<file, df, columns, cleaning_report, saved, error>>
    /\ UNCHANGED <<aggregator, analysis>>

-----------------------------------------------------------------------------
(* run_complete_cleaning_pipeline *)

Next ==
    \/ LoadData
    \/ AnalyzeDataTypes
    \/ CheckMissingValues
    \/ HandleMissingValues
    \/ RemoveDuplicates
    \/ ValidateRanges
    \/ ValidateBinaryFields
    \/ ValidateGeospatial
    \/ ValidateTemporal
    \/ DetectOutliers
    \/ CreateDataQualityFlags
    \/ CalculateDataQualityScore
    \/ SaveCleanedData
    \/ PrintQualityReport

Spec == Init /\ [][Next]_vars

\* the pipeline has returned self.df
Returned == plan = <<>> /\ error = "none"

-----------------------------------------------------------------------------
(* The Resolver run twice: handle_missing_values and remove_duplicates,     *)
(* then both again on the dataset they produced                             *)

ResolverTwice ==
    << "load_data", "analyze_data_types",
       "handle_missing_values", "remove_duplicates",
       "handle_missing_values", "remove_duplicates" >>

InitResolver == InitWith(ResolverTwice)

NextResolver ==
    \/ LoadData
    \/ AnalyzeDataTypes
    \/ HandleMissingValues
    \/ RemoveDuplicates

SpecResolver == InitResolver /\ [][NextResolver]_vars

\* the Resolver is in its second run
SecondRun ==
    /\ error = "none"
    /\ plan \in {<<"handle_missing_values", "remove_duplicates">>, <<"remove_duplicates">>}

-----------------------------------------------------------------------------
(* SupplyChainAggregator of aggregate_supply_chain_data.py: load_data,       *)
(* analyze_temporal_discrepancy and filter_to_declared_range, run in the     *)
(* order run_complete_pipeline calls them on the file the cleaner saved      *)

\* pd.Timestamp: an hour of a calendar day, as a number that grows with time
\* (every month is given 31 days, so the year and the month can be read back)
Timestamp(year, month, day, hour) ==
    ((year * 12 + (month - 1)) * 31 + (day - 1)) * 24 + hour

YearOf(t) == t \div (12 * 31 * 24)
MonthOf(t) == ((t \div (31 * 24)) % 12) + 1
DayOf(t) == ((t \div 24) % 31) + 1

\* the number of days from 1970-01-01 to the day of t
DayNumber(t) ==
    LET y == IF MonthOf(t) <= 2 THEN YearOf(t) - 1 ELSE YearOf(t)
        era == y \div 400
        yoe == y - era * 400
        mp == (MonthOf(t) + 9) % 12
        doy == ((153 * mp + 2) \div 5) + DayOf(t) - 1
        doe == yoe * 365 + (yoe \div 4) - (yoe \div 100) + doy
    IN era * 146097 + doe - 719468

\* Timestamp.weekday(): Monday is 0 and Sunday 6; 1970-01-01 was a Thursday
Weekday(t) == (DayNumber(t) + 3) % 7

\* the day that is n days after 1970-01-01, at the given hour
FromDayNumber(n, hour) ==
    LET z == n + 719468
        era == z \div 146097
        doe == z - era * 146097
        yoe == (doe - (doe \div 1460) + (doe \div 36524) - (doe \div 146096)) \div 365
        doy == doe - (365 * yoe + (yoe \div 4) - (yoe \div 100))
        mp == (5 * doy + 2) \div 153
        day == doy - ((153 * mp + 2) \div 5) + 1
        month == IF mp < 10 THEN mp + 3 ELSE mp - 9
        year == yoe + era * 400 + (IF month <= 2 THEN 1 ELSE 0)
    IN Timestamp(year, month, day, hour)

\* t + pd.Timedelta(days=n)
AddDays(t, n) == FromDayNumber(DayNumber(t) + n, t % 24)

\* Timestamp.date(); NaT.date() is NaT
Date(cell) == IF cell.kind = "ok" THEN Ok(cell.val - (cell.val % 24)) ELSE NaN

Ge(c, v) == c.kind = "ok" /\ c.val >= v
Le(c, v) == c.kind = "ok" /\ c.val <= v

declared_start == Timestamp(2021, 1, 1, 0)
declared_end == Timestamp(2024, 1, 31, 0)

\* the timestamps of the records of a cleaned file
CleanedTimestamps ==
    { Timestamp(2020, 12, 31, 23), Timestamp(2021, 1, 1, 0),
      Timestamp(2022, 6, 13, 9), Timestamp(2022, 6, 14, 0),
      Timestamp(2022, 6, 15, 12), Timestamp(2022, 6, 15, 18),
      Timestamp(2024, 1, 31, 0),
      Timestamp(2024, 1, 31, 10), Timestamp(2024, 2, 1, 0),
      Timestamp(2024, 3, 15, 0), Timestamp(2025, 2, 10, 0) }

\* the columns of the dataset that the short input files above leave out
\* and the aggregations read
DatasetColumns ==
    FileColumns \o
    << "eta_variation_hours", "warehouse_inventory_level", "loading_unloading_time",
       "handling_equipment_availability", "weather_condition_severity",
       "port_congestion_level", "shipping_costs", "supplier_reliability_score",
       "lead_time_days", "historical_demand", "cargo_condition_status",
       "route_risk_level", "customs_clearance_time", "driver_behavior_score",
       "fatigue_monitoring_score", "disruption_likelihood_score",
       "delivery_time_deviation" >>

\* a record of the whole dataset that needs no cleaning, timestamped t; a
\* column the base row does not have gets a valid value
DatasetRow(t) ==
    [c \in Range(DatasetColumns) |->
        IF c = "timestamp" THEN Ok(t)
        ELSE IF c \in DOMAIN BaseRow THEN BaseRow[c]
        ELSE IF c \in {"handling_equipment_availability", "cargo_condition_status"}
        THEN Ok(Dec(1, 0))
        ELSE IF c \in DOMAIN range_validations /\ range_validations[c][2] = <<Dec(1, 0)>>
        THEN Ok(Dec(0, 50))
        ELSE Ok(Dec(3, 0))]

\* the header of a cleaned file: the columns of the input and the flags
CleanedColumns ==
    LET flags == FlagsCreated(DatasetColumns)
    IN DatasetColumns \o [k \in DOMAIN flags |-> flags[k][1]]

\* a record as save_cleaned_data writes it
CleanedRecord(t) ==
    AddFlags([index |-> 0, cells |-> DatasetRow(t)], FlagsCreated(DatasetColumns)).cells

MaxCleaned == 4

\* the files the cleaner saves: every timestamp parsed (handle_missing_values
\* dropped the other rows) and the rows sorted by timestamp (validate_temporal)
CleanedFiles ==
    {f \in UNION {[1..n -> {CleanedRecord(t) : t \in CleanedTimestamps}] :
                     n \in 0..MaxCleaned} :
        \A i, j \in DOMAIN f :
            i < j => f[i]["timestamp"].val <= f[j]["timestamp"].val}

\* the calls of run_complete_pipeline
AggregatorPipeline ==
    << "aggregator.load_data", "analyze_temporal_discrepancy", "filter_to_declared_range",
       "aggregate_daily", "aggregate_weekly", "save_datasets", "print_summary" >>

InitAggregator ==
    /\ file \in CleanedFiles
    /\ plan = AggregatorPipeline
    /\ df = <<>>
    /\ columns = <<>>
    /\ cleaning_report = InitReport
    /\ console = <<>>
    /\ saved = NotSaved
    /\ error = "none"
    /\ df_filtered = <<>>
    /\ temporal_report = NoTemporalReport
    /\ df_daily = <<>>
    /\ df_weekly = <<>>
    /\ datasets = NoDatasets
    /\ stress_analysis = <<>>
    /\ stress_summary = NoSummary
    /\ now = 0
    /\ report_file = NoReport
    /\ analysis_report = <<>>

\* pd.to_datetime without errors='coerce' raises on a text it cannot parse
Unparsable(rows) == \E i \in DOMAIN rows : rows[i].cells["timestamp"].kind = "bad"

AggregatorLoadData ==
    /\ At("aggregator.load_data")
    /\ df' = ReadCsv(file)
    /\ columns' = CleanedColumns
    /\ IF Unparsable(ReadCsv(file))
       THEN /\ error' = "ValueError"
            /\ plan' = <<>>
            /\ UNCHANGED console
       ELSE /\ console' = console
                  \o << Msg("Loaded dataset", <<Len(file)>>),
                        Msg("Date range",
                            << Date(Min(Col(ReadCsv(file), "timestamp"))),
                               Date(Max(Col(ReadCsv(file), "timestamp"))) >>) >>
            /\ plan' = Tail(plan)
            /\ UNCHANGED error
    /\ UNCHANGED <<file, cleaning_report, saved, aggregator, analysis>>

\* the first rows, as many as are in the range, in place of the rows in it
WithinDeclaredHead(rows) ==
    SubSeq(rows, 1, Cardinality({i \in DOMAIN rows :
        /\ Ge(rows[i].cells["timestamp"], declared_start)
        /\ Le(rows[i].cells["timestamp"], declared_end)}))

\* df[(df['timestamp'] >= declared_start) & (df['timestamp'] <= declared_end)]
WithinDeclared(rows) ==
    SelectIdx(rows, {i \in DOMAIN rows :
        /\ Ge(rows[i].cells["timestamp"], declared_start)
        /\ Le(rows[i].cells["timestamp"], declared_end)}, 1)

\* '>=' in place of '>': a record at the declared end is beyond it as well
BeyondDeclaredFromEnd(rows) ==
    SelectIdx(rows, {i \in DOMAIN rows : Ge(rows[i].cells["timestamp"], declared_end)}, 1)

\* df[df['timestamp'] > declared_end]
BeyondDeclared(rows) ==
    SelectIdx(rows, {i \in DOMAIN rows : Gt(rows[i].cells["timestamp"], declared_end)}, 1)

\* the whole months gone by: one less when the day of the month is not reached
MonthsBeyondElapsed(actual_end, end) ==
    (YearOf(actual_end) - YearOf(end)) * 12 + (MonthOf(actual_end) - MonthOf(end))
        - (IF DayOf(actual_end) < DayOf(end) THEN 1 ELSE 0)

\* (actual_end.year - declared_end.year) * 12 + (actual_end.month - declared_end.month)
MonthsBeyond(actual_end, end) ==
    (YearOf(actual_end) - YearOf(end)) * 12 + (MonthOf(actual_end) - MonthOf(end))

AnalyzeTemporalDiscrepancy ==
    /\ At("analyze_temporal_discrepancy")
    /\ LET actual_start == Min(Col(df, "timestamp"))
           actual_end == Max(Col(df, "timestamp"))
           within_declared == WithinDeclared(df)
           beyond_declared == BeyondDeclared(df)
       IN /\ console' = console
                \o << Msg("Declared Range",
                          <<Date(Ok(declared_start)), Date(Ok(declared_end))>>),
                      Msg("Actual Range", <<Date(actual_start), Date(actual_end)>>) >>
                \o (IF Len(beyond_declared) > 0
                    THEN <<Msg("TEMPORAL DISCREPANCY DETECTED",
                               << MonthsBeyond(actual_end.val, declared_end),
                                  Len(within_declared),
                                  Pct(Len(within_declared), Len(df)),
                                  Len(beyond_declared),
                                  Pct(Len(beyond_declared), Len(df)),
                                  Date(actual_end) >>)>>
                    ELSE <<>>)
          /\ temporal_report' =
                [ written |-> TRUE,
                  declared_start |-> declared_start,
                  declared_end |-> declared_end,
                  actual_start |-> actual_start,
                  actual_end |-> actual_end,
                  within_count |-> Len(within_declared),
                  beyond_count |-> Len(beyond_declared) ]
    /\ plan' = Tail(plan)
    /\ UNCHANGED <<file, df, columns, cleaning_report, saved, error, df_filtered>>
    /\ UNCHANGED <<df_daily, df_weekly, datasets, analysis>>

\* the date range printed from the first row: .iloc[0] raises on an empty frame
FilterToDeclaredRangeFirstRow ==
    /\ At("filter_to_declared_range")
    /\ df_filtered' = WithinDeclared(df)
    /\ IF WithinDeclared(df) = <<>>
       THEN /\ error' = "IndexError"
            /\ plan' = <<>>
            /\ console' = console
                  \o << Msg("Filtered dataset", <<0>>),
                        Msg("Removed rows outside declared range", <<Len(df)>>) >>
       ELSE /\ console' = console
                  \o << Msg("Filtered dataset", <<Len(WithinDeclared(df))>>),
                        Msg("Removed rows outside declared range",
                            <<Len(df) - Len(WithinDeclared(df))>>),
                        Msg("Filtered date range",
                            << Date(WithinDeclared(df)[1].cells["timestamp"]),
                               Date(Max(Col(WithinDeclared(df), "timestamp"))) >>) >>
            /\ plan' = Tail(plan)
            /\ UNCHANGED error
    /\ UNCHANGED <<file, df, columns, cleaning_report, saved, temporal_report>>
    /\ UNCHANGED <<df_daily, df_weekly, datasets, analysis>>

FilterToDeclaredRange ==
    /\ At("filter_to_declared_range")
    /\ LET filtered == WithinDeclared(df)
           rows_removed == Len(df) - Len(filtered)
       IN /\ df_filtered' = filtered
          /\ console' = console
                \o << Msg("Filtered dataset", <<Len(filtered)>>),
                      Msg("Removed rows outside declared range", <<rows_removed>>),
                      Msg("Filtered date range",
                          << Date(Min(Col(filtered, "timestamp"))),
                             Date(Max(Col(filtered, "timestamp"))) >>) >>
    /\ plan' = Tail(plan)
    /\ UNCHANGED <<file, df, columns, cleaning_report, saved, error, temporal_report>>
    /\ UNCHANGED <<df_daily, df_weekly, datasets, analysis>>

-----------------------------------------------------------------------------
(* aggregate_daily and aggregate_weekly *)

\* the reducers that the aggregations name; each skips the nulls.  A mean is
\* the exact fraction <<sum, count>>; a standard deviation (ddof = 1) is kept
\* as the fraction under its square root, <<"sqrt", numerator, denominator>>
Count(cells) == Ok(Len(NonNull(cells)))

Sum(cells) ==
    LET s == NonNull(cells) IN Ok(SumOver(DOMAIN s, s))

Mean(cells) ==
    IF Count(cells).val = 0 THEN NaN ELSE Ok(<<Sum(cells).val, Count(cells).val>>)

Reduce(func, cells) ==
    CASE func = "count" -> Count(cells)
      [] func = "sum" -> Sum(cells)
      [] func = "mean" -> Mean(cells)
      [] func = "std" ->
            LET s == NonNull(cells)
                n == Len(s)
                total == SumOver(DOMAIN s, s)
                squares == SumOver(DOMAIN s, [i \in DOMAIN s |-> s[i] * s[i]])
            IN IF n < 2 THEN NaN
               ELSE Ok(<<"sqrt", n * squares - total * total, n * (n - 1)>>)
      [] func = "min" -> Min(cells)
      [] func = "max" -> Max(cells)

\* the dict daily_agg, in its order: column and the reducers asked of it
daily_agg ==
    << <<"vehicle_gps_latitude", <<"count">>>>,
       <<"fuel_consumption_rate", <<"mean", "std", "max">>>>,
       <<"shipping_costs", <<"mean", "sum", "std">>>>,
       <<"loading_unloading_time", <<"mean", "max">>>>,
       <<"warehouse_inventory_level", <<"mean", "min", "max">>>>,
       <<"historical_demand", <<"mean", "sum">>>>,
       <<"order_fulfillment_status", <<"mean">>>>,
       <<"eta_variation_hours", <<"mean", "std">>>>,
       <<"delivery_time_deviation", <<"mean", "std">>>>,
       <<"traffic_congestion_level", <<"mean">>>>,
       <<"route_risk_level", <<"mean">>>>,
       <<"delay_probability", <<"mean">>>>,
       <<"disruption_likelihood_score", <<"mean">>>>,
       <<"cargo_condition_status", <<"mean">>>>,
       <<"supplier_reliability_score", <<"mean">>>>,
       <<"driver_behavior_score", <<"mean">>>>,
       <<"fatigue_monitoring_score", <<"mean">>>>,
       <<"iot_temperature", <<"mean", "min", "max">>>>,
       <<"weather_condition_severity", <<"mean">>>>,
       <<"handling_equipment_availability", <<"mean">>>> >>

\* the dict weekly_agg: the same, and the port and customs means
weekly_agg ==
    daily_agg \o << <<"port_congestion_level", <<"mean">>>>,
                    <<"customs_clearance_time", <<"mean">>>> >>

RECURSIVE AggColumns(_)
\* the columns of the aggregated frame: one (column, reducer) pair per reducer,
\* which '_'.join(col) then writes as column_reducer
AggColumns(agg) ==
    IF agg = <<>> THEN <<>>
    ELSE [k \in DOMAIN Head(agg)[2] |-> <<Head(agg)[1], Head(agg)[2][k]>>]
         \o AggColumns(Tail(agg))

\* the rename of the record count, under the name count_name, and of the rates
Renames(count_name) ==
    (<<"vehicle_gps_latitude", "count">> :> <<count_name>>)
    @@ (<<"order_fulfillment_status", "mean">> :> <<"fulfillment_rate">>)
    @@ (<<"cargo_condition_status", "mean">> :> <<"good_cargo_rate">>)
    @@ (<<"handling_equipment_availability", "mean">> :> <<"equipment_availability_rate">>)

\* DataFrame.rename(columns=...) for one column name
Renamed(name, renames) == IF name \in DOMAIN renames THEN renames[name] ELSE name

\* the label of the bin that resample(rule) counts timestamp t in.  'D' bins
\* are the calendar days, labelled by their midnight; 'W-MON' bins are the
\* weeks that end on a Monday, closed and labelled on the right: Tuesday
\* 00:00 to the end of Monday, labelled by the midnight that begins that Monday
BinLabel(rule, t) ==
    LET day == t - (t % 24)
    IN IF rule = "D" \/ Weekday(t) = 0 THEN day
       ELSE AddDays(day, 7 - Weekday(t))


\* the bins in first-appearance order of their records, as a grouping that
\* does not sort its keys gives them
BinLabelsAsMet(rule, rows) ==
    LET labels == [i \in DOMAIN rows |-> BinLabel(rule, rows[i].cells["timestamp"].val)]
        firsts == {i \in DOMAIN rows : \A j \in 1..(i - 1) : labels[j] # labels[i]}
    IN [k \in 1..Cardinality(firsts) |->
           labels[CHOOSE i \in firsts : Cardinality({j \in firsts : j < i}) = k - 1]]

\* the labels of the bins resample(rule) makes, in chronological order
\* (resample sorts the time axis): every bin from the one of the earliest
\* timestamp on, up to the day of the latest ('D') or the anchor after the
\* day of the latest ('W-MON'), with or without records
BinLabelsSorted(rule, rows) ==
    IF rows = <<>> THEN <<>>
    ELSE LET first == BinLabel(rule, Min(Col(rows, "timestamp")).val)
             latest == Max(Col(rows, "timestamp")).val
             last == IF rule = "D" THEN BinLabel(rule, latest)
                     ELSE AddDays(latest - (latest % 24), 7 - Weekday(latest))
             step == IF rule = "D" THEN 1 ELSE 7
             n == ((DayNumber(last) - DayNumber(first)) \div step) + 1
         IN [k \in 1..n |-> AddDays(first, (k - 1) * step)]

\* df_temp.resample(rule).agg(agg): one row per bin, indexed by the label
Resample(rows, rule, agg) ==
    LET labels == BinLabelsSorted(rule, rows)
        names == Range(AggColumns(agg))
    IN [k \in DOMAIN labels |->
           LET members == SelectSeq(rows,
                   LAMBDA r : BinLabel(rule, r.cells["timestamp"].val) = labels[k])
           IN [ index |-> labels[k],
                cells |-> [name \in names |-> Reduce(name[2], Col(members, name[1]))] ]]

\* every bin, the empty ones too
AllBins(rows, count_name) == rows

\* the rows whose record count is positive
NonEmptyBins(rows, count_name) ==
    SelectSeq(rows, LAMBDA r : Gt(r.cells[<<count_name>>], 0))

\* the header of an aggregated frame: the key, then the reducers in dict order
AggHeader(key_name, agg, renames) ==
    <<<<key_name>>>> \o [k \in DOMAIN AggColumns(agg) |-> Renamed(AggColumns(agg)[k], renames)]

\* a column that the dict names and the frame does not have: KeyError
MissingColumn(agg) == \E k \in DOMAIN agg : agg[k][1] \notin Range(columns)

\* the body of both aggregations
Aggregate(rule, agg, count_name, key_name) ==
    LET renames == Renames(count_name)
        \* the flattened columns under their new names
        RenameColumns(rows) ==
            [k \in DOMAIN rows |->
                [ index |-> rows[k].index,
                  cells |-> [name \in {Renamed(n, renames) : n \in DOMAIN rows[k].cells} |->
                                rows[k].cells[CHOOSE n \in DOMAIN rows[k].cells :
                                                  Renamed(n, renames) = name]] ]]
        \* reset_index and the rename of the index column: the label becomes
        \* the column key_name and the rows are numbered from 0
        ResetIndexAs(rows) ==
            [k \in DOMAIN rows |->
                [ index |-> k - 1,
                  cells |-> [name \in DOMAIN rows[k].cells \cup {<<key_name>>} |->
                                IF name = <<key_name>> THEN Ok(rows[k].index)
                                ELSE rows[k].cells[name]] ]]
    IN ResetIndexAs(
           NonEmptyBins(RenameColumns(Resample(df_filtered, rule, agg)), count_name))

AggregateDaily ==
    /\ At("aggregate_daily")
    /\ IF MissingColumn(daily_agg)
       THEN /\ error' = "KeyError"
            /\ plan' = <<>>
            /\ console' = Append(console, Msg("AGGREGATING DAILY METRICS", <<>>))
            /\ UNCHANGED df_daily
       ELSE /\ df_daily' = Aggregate("D", daily_agg, "daily_record_count", "date")
            /\ console' = console
                  \o << Msg("AGGREGATING DAILY METRICS", <<>>),
                        Msg("Daily aggregation complete", <<Len(df_daily')>>),
                        Msg("Columns", <<Len(AggColumns(daily_agg)) + 1>>) >>
            /\ plan' = Tail(plan)
            /\ UNCHANGED error
    /\ UNCHANGED <<file, df, columns, cleaning_report, saved, temporal_report>>
    /\ UNCHANGED <<df_filtered, df_weekly, datasets, analysis>>

AggregateWeekly ==
    /\ At("aggregate_weekly")
    /\ IF MissingColumn(weekly_agg)
       THEN /\ error' = "KeyError"
            /\ plan' = <<>>
            /\ console' = Append(console, Msg("AGGREGATING WEEKLY METRICS", <<>>))
            /\ UNCHANGED df_weekly
       ELSE /\ df_weekly' = Aggregate("W-MON", weekly_agg, "weekly_record_count", "week_start")
            /\ console' = console
                  \o << Msg("AGGREGATING WEEKLY METRICS", <<>>),
                        Msg("Weekly aggregation complete", <<Len(df_weekly')>>),
                        Msg("Columns", <<Len(AggColumns(weekly_agg)) + 1>>) >>
            /\ plan' = Tail(plan)
            /\ UNCHANGED error
    /\ UNCHANGED <<file, df, columns, cleaning_report, saved, temporal_report>>
    /\ UNCHANGED <<df_filtered, df_daily, datasets, analysis>>

-----------------------------------------------------------------------------
(* save_datasets and print_summary *)

SaveDatasets ==
    /\ At("save_datasets")
    /\ datasets' =
          [ filtered |-> ToCsv(df_filtered, columns),
            daily |-> ToCsv(df_daily,
                            AggHeader("date", daily_agg, Renames("daily_record_count"))),
            weekly |-> ToCsv(df_weekly,
                             AggHeader("week_start", weekly_agg,
                                       Renames("weekly_record_count"))) ]
    /\ console' = console
          \o << Msg("Filtered dataset saved", <<Len(df_filtered)>>),
                Msg("Daily aggregation saved",
                    <<Len(df_daily), Len(AggColumns(daily_agg)) + 1>>),
                Msg("Weekly aggregation saved",
                    <<Len(df_weekly), Len(AggColumns(weekly_agg)) + 1>>) >>
    /\ plan' = Tail(plan)
    /\ UNCHANGED <<file, df, columns, cleaning_report, saved, error, temporal_report>>
    /\ UNCHANGED <<df_filtered, df_daily, df_weekly, analysis>>

PrintSummary ==
    /\ At("print_summary")
    /\ console' = console
          \o << Msg("Operational Performance",
                    << Mean(Col(df_filtered, "order_fulfillment_status")),
                       Mean(Col(df_filtered, "fuel_consumption_rate")),
                       Sum(Col(df_filtered, "shipping_costs")),
                       Mean(Col(df_filtered, "historical_demand")) >>),
                Msg("Risk Indicators",
                    << Mean(Col(df_filtered, "traffic_congestion_level")),
                       Mean(Col(df_filtered, "route_risk_level")),
                       Mean(Col(df_filtered, "delay_probability")) >>),
                Msg("Quality Metrics",
                    << Mean(Col(df_filtered, "cargo_condition_status")),
                       Mean(Col(df_filtered, "supplier_reliability_score")),
                       Mean(Col(df_filtered, "driver_behavior_score")) >>) >>
          \o (IF Len(df_weekly) > 4
              THEN <<Msg("Trend Analysis", <<>>)>>
              ELSE <<>>)
          \o <<Msg("Aggregation complete", <<>>)>>
    /\ plan' = Tail(plan)
    /\ UNCHANGED <<file, df, columns, cleaning_report, saved, error, temporal_report>>
    /\ UNCHANGED <<df_filtered, df_daily, df_weekly, datasets, analysis>>

NextAggregator ==
    \/ AggregatorLoadData
    \/ AnalyzeTemporalDiscrepancy
    \/ FilterToDeclaredRange
    \/ AggregateDaily
    \/ AggregateWeekly
    \/ SaveDatasets
    \/ PrintSummary

SpecAggregator == InitAggregator /\ [][NextAggregator]_vars

\* the aggregator on a file whose records are in any order
MaxUnordered == 3

UnorderedFiles ==
    LET timestamps ==
            { Timestamp(2021, 1, 1, 0), Timestamp(2022, 6, 13, 9),
              Timestamp(2022, 6, 14, 0), Timestamp(2022, 6, 15, 12),
              Timestamp(2024, 1, 31, 10), Timestamp(2024, 3, 15, 0) }
    IN UNION {[1..n -> {CleanedRecord(t) : t \in timestamps}] : n \in 0..MaxUnordered}

InitUnordered ==
    /\ file \in UnorderedFiles
    /\ plan = AggregatorPipeline
    /\ df = <<>>
    /\ columns = <<>>
    /\ cleaning_report = InitReport
    /\ console = <<>>
    /\ saved = NotSaved
    /\ error = "none"
    /\ df_filtered = <<>>
    /\ temporal_report = NoTemporalReport
    /\ df_daily = <<>>
    /\ df_weekly = <<>>
    /\ datasets = NoDatasets
    /\ stress_analysis = <<>>
    /\ stress_summary = NoSummary
    /\ now = 0
    /\ report_file = NoReport
    /\ analysis_report = <<>>

SpecAggregatorAnyOrder == InitUnordered /\ [][NextAggregator]_vars

-----------------------------------------------------------------------------
(* BottleneckAnalyzer of analyze_bottlenecks.py, run twice on the filtered   *)
(* file while the wall clock advances                                        *)

AnalyzerPipeline ==
    << "analyzer.load_data", "analyze_lead_time_performance",
       "analyze_delivery_performance_metrics", "analyze_delivery_costs",
       "analyze_bottleneck_correlations", "identify_critical_bottlenecks",
       "generate_recommendations", "save_analysis_report" >>

MaxFiltered == 3

\* filtered_supply_chain_data.csv: records that differ in their lead time and
\* in whether the order was fulfilled
FilteredFiles ==
    LET FilteredRecord(lead, fulfilled) ==
            [CleanedRecord(Timestamp(2022, 6, 15, 12)) EXCEPT
                !["lead_time_days"] = Ok(lead),
                !["order_fulfillment_status"] = Ok(fulfilled)]
        records == {FilteredRecord(lead, fulfilled) :
                       lead \in {Dec(2, 0), Dec(3, 0), Dec(5, 0)},
                       fulfilled \in {Dec(0, 0), Dec(1, 0)}}
    IN UNION {[1..n -> records] : n \in 0..MaxFiltered}

\* the seconds the wall clock advances in one step, and where the model stops it
ClockStep == 30
MaxClock == 90

InitAnalyzer ==
    /\ file \in FilteredFiles
    \* main() of the script, started a second time when the first run has ended
    /\ plan = AnalyzerPipeline \o AnalyzerPipeline
    /\ df = <<>>
    /\ columns = <<>>
    /\ cleaning_report = InitReport
    /\ console = <<>>
    /\ saved = NotSaved
    /\ error = "none"
    /\ df_filtered = <<>>
    /\ temporal_report = NoTemporalReport
    /\ df_daily = <<>>
    /\ df_weekly = <<>>
    /\ datasets = NoDatasets
    /\ stress_analysis = <<>>
    /\ stress_summary = NoSummary
    /\ now = 0
    /\ report_file = NoReport
    /\ analysis_report = <<>>

\* time passes while the script runs and between its runs
Tick ==
    /\ plan # <<>>
    /\ error = "none"
    /\ now < MaxClock
    /\ now' = now + ClockStep
    /\ UNCHANGED <<file, plan, df, columns, cleaning_report, console, saved, error>>
    /\ UNCHANGED <<aggregator, stress_analysis, stress_summary, report_file, analysis_report>>

AnalyzerLoadData ==
    /\ At("analyzer.load_data")
    /\ df' = ReadCsv(file)
    /\ columns' = CleanedColumns
    /\ IF Unparsable(ReadCsv(file))
       THEN /\ error' = "ValueError"
            /\ plan' = <<>>
            /\ UNCHANGED console
       ELSE /\ console' = Append(console,
                  Msg("Loaded",
                      << Len(file),
                         Date(Min(Col(ReadCsv(file), "timestamp"))),
                         Date(Max(Col(ReadCsv(file), "timestamp"))) >>))
            /\ plan' = Tail(plan)
            /\ UNCHANGED error
    /\ UNCHANGED <<file, cleaning_report, saved, aggregator>>
    /\ UNCHANGED <<stress_analysis, stress_summary, now, report_file, analysis_report>>

\* (self.df[c] > v).sum() and (self.df[c] == v).sum()
CountGt(rows, c, v) == Cardinality({i \in DOMAIN rows : Gt(rows[i].cells[c], v)})
CountEq(rows, c, v) == Cardinality({i \in DOMAIN rows : Eq(rows[i].cells[c], v)})

\* (self.df[c] > self.df[c].quantile(0.75)).sum(); the quantile of no value
\* is NaN and nothing is above it
CountAbove75(rows, c) ==
    LET s == SortValues(NonNull(Col(rows, c)))
    IN IF s = <<>> THEN 0
       ELSE Cardinality({i \in DOMAIN rows :
               rows[i].cells[c].kind = "ok" /\ 4 * rows[i].cells[c].val > Quantile4(s, 3)})

\* count / len(self.df) * 100 on numpy integers: NaN, not an exception, for 0 / 0
PctOfRows(count, rows) == IF Len(rows) = 0 THEN NaN ELSE Ok(<<100 * count, Len(rows)>>)

AnalyzeLeadTimePerformance ==
    /\ At("analyze_lead_time_performance")
    /\ LET long_lead_times == CountAbove75(df, "lead_time_days")
           late_deliveries == CountGt(df, "eta_variation_hours", 0)
           severely_late == CountGt(df, "eta_variation_hours", Dec(3, 0))
           slow_loading == CountAbove75(df, "loading_unloading_time")
           slow_customs == CountAbove75(df, "customs_clearance_time")
       IN /\ console' = Append(console,
                Msg("LEAD TIME & DELIVERY PERFORMANCE ANALYSIS",
                    << long_lead_times, late_deliveries,
                       Cardinality({i \in DOMAIN df :
                           Lt(df[i].cells["eta_variation_hours"], 0)}),
                       CountEq(df, "eta_variation_hours", 0),
                       severely_late, slow_loading, slow_customs >>))
          /\ analysis_report' =
                ("lead_time" :>
                    [ avg_lead_time |-> Mean(Col(df, "lead_time_days")),
                      long_lead_times |-> long_lead_times,
                      late_deliveries |-> late_deliveries,
                      severely_late |-> severely_late,
                      slow_loading |-> slow_loading,
                      slow_customs |-> slow_customs ])
                @@ analysis_report
    /\ plan' = Tail(plan)
    /\ UNCHANGED <<file, df, columns, cleaning_report, saved, error, aggregator>>
    /\ UNCHANGED <<stress_analysis, stress_summary, now, report_file>>

AnalyzeDeliveryPerformanceMetrics ==
    /\ At("analyze_delivery_performance_metrics")
    /\ LET fulfillment_rate == Mean(Col(df, "order_fulfillment_status"))
           not_fulfilled_count == CountEq(df, "order_fulfillment_status", 0)
           high_delay_risk == CountGt(df, "delay_probability", Dec(0, 70))
           no_equipment == CountEq(df, "handling_equipment_availability", 0)
       IN /\ console' = Append(console,
                Msg("DELIVERY PERFORMANCE METRICS",
                    << fulfillment_rate,
                       CountEq(df, "order_fulfillment_status", Dec(1, 0)),
                       not_fulfilled_count, high_delay_risk, no_equipment >>))
          /\ analysis_report' =
                ("performance" :>
                    [ fulfillment_rate |-> fulfillment_rate,
                      not_fulfilled |-> not_fulfilled_count,
                      high_delay_risk |-> high_delay_risk,
                      no_equipment |-> no_equipment ])
                @@ analysis_report
    /\ plan' = Tail(plan)
    /\ UNCHANGED <<file, df, columns, cleaning_report, saved, error, aggregator>>
    /\ UNCHANGED <<stress_analysis, stress_summary, now, report_file>>

AnalyzeDeliveryCosts ==
    /\ At("analyze_delivery_costs")
    /\ LET \* ten times Series.quantile(k / 10) of the sorted values v
           Quantile10(v, k) ==
               LET pos == (Len(v) - 1) * k
                   lo == pos \div 10 + 1
                   r == pos % 10
               IN IF r = 0 THEN 10 * v[lo] ELSE 10 * v[lo] + (v[lo + 1] - v[lo]) * r
           \* (self.df[c] > self.df[c].quantile(0.90)).sum()
           CountAbove90(c) ==
               LET v == SortValues(NonNull(Col(df, c)))
               IN IF v = <<>> THEN 0
                  ELSE Cardinality({i \in DOMAIN df :
                          /\ df[i].cells[c].kind = "ok"
                          /\ 10 * df[i].cells[c].val > Quantile10(v, 9)})
           s == SortValues(NonNull(Col(df, "lead_time_days")))
           \* pd.qcut(q=4): the five bin edges are the quantiles 0, 0.25, ..., 1,
           \* and edges that are not all different raise "Bin edges must be
           \* unique"; of no value every edge is NaN
           UniqueEdges ==
               /\ s # <<>>
               /\ \A j, k \in 0..4 : j < k => Quantile4(s, j) < Quantile4(s, k)
           \* the bin of value v: (edge k-1, edge k], the lowest edge included
           Quartile(v) ==
               CHOOSE k \in 1..4 :
                   4 * v <= Quantile4(s, k) /\ (k = 1 \/ 4 * v > Quantile4(s, k - 1))
           high_cost_shipments == CountAbove90("shipping_costs")
           high_fuel == CountGt(df, "fuel_consumption_rate", Dec(15, 0))
       IN IF UniqueEdges
          THEN /\ df' = [i \in DOMAIN df |->
                    [df[i] EXCEPT !.cells =
                        ("lead_time_quartile" :>
                            Ok(Quartile(df[i].cells["lead_time_days"].val)))
                        @@ df[i].cells]]
               /\ columns' = Append(columns, "lead_time_quartile")
               /\ console' = Append(console,
                     Msg("DELIVERY COST ANALYSIS",
                         << Sum(Col(df, "shipping_costs")), high_cost_shipments,
                            high_fuel >>))
               /\ analysis_report' =
                     ("costs" :>
                         [ total_shipping |-> Sum(Col(df, "shipping_costs")),
                           avg_shipping |-> Mean(Col(df, "shipping_costs")),
                           high_cost_shipments |-> high_cost_shipments,
                           high_fuel_consumption |-> high_fuel ])
                     @@ analysis_report
               /\ plan' = Tail(plan)
               /\ UNCHANGED error
          ELSE /\ error' = "ValueError"
               /\ plan' = <<>>
               /\ console' = Append(console,
                     Msg("DELIVERY COST ANALYSIS",
                         << Sum(Col(df, "shipping_costs")), high_cost_shipments,
                            high_fuel >>))
               /\ UNCHANGED <<df, columns, analysis_report>>
    /\ UNCHANGED <<file, cleaning_report, saved, aggregator>>
    /\ UNCHANGED <<stress_analysis, stress_summary, now, report_file>>

\* the factors of the list bottleneck_factors
bottleneck_factors ==
    << "lead_time_days", "loading_unloading_time", "customs_clearance_time",
       "traffic_congestion_level", "port_congestion_level", "route_risk_level",
       "delay_probability", "handling_equipment_availability",
       "weather_condition_severity" >>

AnalyzeBottleneckCorrelations ==
    /\ At("analyze_bottleneck_correlations")
    /\ console' = Append(console,
          Msg("BOTTLENECK CORRELATION ANALYSIS",
              <<{bottleneck_factors[k] : k \in {j \in DOMAIN bottleneck_factors :
                                                    bottleneck_factors[j] \in Range(columns)}}>>))
    /\ plan' = Tail(plan)
    /\ UNCHANGED <<file, df, columns, cleaning_report, saved, error, aggregator>>
    /\ UNCHANGED analysis

IdentifyCriticalBottlenecks ==
    /\ At("identify_critical_bottlenecks")
    /\ console' = Append(console,
          Msg("CRITICAL BOTTLENECKS SUMMARY",
              << PctOfRows(CountGt(df, "eta_variation_hours", 0), df),
                 PctOfRows(CountAbove75(df, "lead_time_days"), df),
                 PctOfRows(CountAbove75(df, "loading_unloading_time"), df),
                 PctOfRows(CountEq(df, "handling_equipment_availability", 0), df),
                 PctOfRows(CountGt(df, "traffic_congestion_level", Dec(7, 0)), df),
                 PctOfRows(CountAbove75(df, "customs_clearance_time"), df) >>))
    /\ plan' = Tail(plan)
    /\ UNCHANGED <<file, df, columns, cleaning_report, saved, error, aggregator>>
    /\ UNCHANGED analysis

GenerateRecommendations ==
    /\ At("generate_recommendations")
    /\ console' = Append(console,
          Msg("ACTIONABLE RECOMMENDATIONS",
              << PctOfRows(CountEq(df, "handling_equipment_availability", 0), df),
                 Mean(Col(df, "loading_unloading_time")),
                 CountGt(df, "fuel_consumption_rate", Dec(15, 0)),
                 Mean(Col(df, "lead_time_days")) >>))
    /\ plan' = Tail(plan)
    /\ UNCHANGED <<file, df, columns, cleaning_report, saved, error, aggregator>>
    /\ UNCHANGED analysis

\* num / den rounded to the nearest integer, a tie to the even one, for
\* num >= 0: what the format specs .1f and .2f do to the digits they keep
RoundDiv(num, den) ==
    LET q == num \div den
        r == num % den
    IN IF 2 * r < den THEN q
       ELSE IF 2 * r > den THEN q + 1
       ELSE IF q % 2 = 0 THEN q ELSE q + 1

\* f"{value:.1f}" of count / rows * 100, in tenths
FormatPct(count, rows) ==
    IF Len(rows) = 0 THEN NaN ELSE Ok(RoundDiv(1000 * count, Len(rows)))

\* datetime.now().strftime('%B %d, %Y at %I:%M %p') of a clock that counts
\* seconds: the date and the minute, the seconds left out
Strftime(clock) == clock \div 60

\* the lines that save_analysis_report writes
ReportLines(rows, clock) ==
    LET n == Len(rows)
        fulfilled == Sum(Col(rows, "order_fulfillment_status")).val
        lead == Sum(Col(rows, "lead_time_days")).val
    IN [ written |-> TRUE,
         generated |-> Strftime(clock),
         lines |->
            << n,
               IF n = 0 THEN NaN ELSE Ok(RoundDiv(10 * fulfilled, n)),
               Sum(Col(rows, "shipping_costs")),
               IF n = 0 THEN NaN ELSE Ok(RoundDiv(lead, 10 * n)),
               IF n = 0 THEN NaN ELSE Ok(RoundDiv(10 * (100 * n - fulfilled), n)),
               FormatPct(CountGt(rows, "eta_variation_hours", 0), rows),
               FormatPct(CountEq(rows, "handling_equipment_availability", 0), rows),
               CountGt(rows, "fuel_consumption_rate", Dec(15, 0)) >> ]

SaveAnalysisReport ==
    /\ At("save_analysis_report")
    /\ report_file' = ReportLines(df, now)
    /\ console' = Append(console, Msg("Analysis report saved", <<>>))
    /\ plan' = Tail(plan)
    /\ UNCHANGED <<file, df, columns, cleaning_report, saved, error, aggregator>>
    /\ UNCHANGED <<stress_analysis, stress_summary, now, analysis_report>>

NextAnalyzer ==
    \/ Tick
    \/ AnalyzerLoadData
    \/ AnalyzeLeadTimePerformance
    \/ AnalyzeDeliveryPerformanceMetrics
    \/ AnalyzeDeliveryCosts
    \/ AnalyzeBottleneckCorrelations
    \/ IdentifyCriticalBottlenecks
    \/ GenerateRecommendations
    \/ SaveAnalysisReport

SpecAnalyzer == InitAnalyzer /\ [][NextAnalyzer]_vars

-----------------------------------------------------------------------------
(* analyze_operational_stress and main of external_network_stress_index.py  *)

MaxStress == 3

\* filtered_supply_chain_data.csv as the script reads it.  A record gives the
\* three statuses, the three durations and the ETA variation
StressFiles ==
    LET StressRecord(cargo, equipment, fulfilled, loading, customs, lead, eta) ==
            [CleanedRecord(Timestamp(2022, 6, 15, 12)) EXCEPT
                !["cargo_condition_status"] = Ok(cargo),
                !["handling_equipment_availability"] = Ok(equipment),
                !["order_fulfillment_status"] = Ok(fulfilled),
                !["loading_unloading_time"] = Ok(loading),
                !["customs_clearance_time"] = Ok(customs),
                !["lead_time_days"] = Ok(lead),
                !["eta_variation_hours"] = Ok(eta)]
        records ==
            { StressRecord(Dec(1, 0), Dec(1, 0), Dec(1, 0), Dec(3, 0), Dec(3, 0), Dec(3, 0), 0),
              StressRecord(0, 0, 0, Dec(9, 0), Dec(9, 0), Dec(9, 0), Dec(5, 0)),
              StressRecord(0, Dec(1, 0), Dec(1, 0), Dec(3, 0), Dec(3, 0), Dec(3, 0), Dec(5, 0)),
              StressRecord(Dec(1, 0), Dec(1, 0), 0, Dec(9, 0), Dec(3, 0), Dec(3, 0), -Dec(1, 0)),
              StressRecord(Dec(1, 0), 0, Dec(1, 0), Dec(3, 0), Dec(9, 0), Dec(3, 0), 0),
              StressRecord(Dec(1, 0), Dec(1, 0), Dec(1, 0), Dec(3, 0), Dec(3, 0), Dec(9, 0), Dec(2, 0)),
              StressRecord(0, 0, Dec(1, 0), Dec(4, 0), Dec(9, 0), Dec(9, 0), Dec(1, 0)) }
    IN UNION {[1..n -> records] : n \in 0..MaxStress}

InitStress ==
    /\ file \in StressFiles
    /\ plan = <<"analyze_operational_stress", "save_summary">>
    /\ df = <<>>
    /\ columns = <<>>
    /\ cleaning_report = InitReport
    /\ console = <<>>
    /\ saved = NotSaved
    /\ error = "none"
    /\ df_filtered = <<>>
    /\ temporal_report = NoTemporalReport
    /\ df_daily = <<>>
    /\ df_weekly = <<>>
    /\ datasets = NoDatasets
    /\ stress_analysis = <<>>
    /\ stress_summary = NoSummary
    /\ now = 0
    /\ report_file = NoReport
    /\ analysis_report = <<>>

\* the keys of the dict stress_factors, in its order: name and column
stress_factors ==
    << <<"Poor Cargo Condition", "cargo_condition_status">>,
       <<"No Equipment Available", "handling_equipment_availability">>,
       <<"Order Not Fulfilled", "order_fulfillment_status">>,
       <<"Slow Loading", "loading_unloading_time">>,
       <<"Slow Customs", "customs_clearance_time">>,
       <<"Long Lead Time", "lead_time_days">> >>

\* the condition of factor k for row i: a status equal to 0, or a duration
\* above the 75th percentile of its column (never, when that is NaN)
FactorHolds(k, rows, i) ==
    LET c == stress_factors[k][2]
        cell == rows[i].cells[c]
        s == SortValues(NonNull(Col(rows, c)))
    IN IF k <= 3 THEN Eq(cell, 0)
       ELSE s # <<>> /\ cell.kind = "ok" /\ 4 * cell.val > Quantile4(s, 3)

\* the loop over the three status factors only
StressIndexOfStatuses(rows, i) ==
    Cardinality({k \in 1..3 : FactorHolds(k, rows, i)})

\* df['stress_index'] = 0, then += condition.astype(int) for every factor
StressIndex(rows, i) ==
    SumOver(DOMAIN stress_factors,
            [k \in DOMAIN stress_factors |-> IF FactorHolds(k, rows, i) THEN 1 ELSE 0])

\* groupby('stress_index').agg(...).round(2) with its columns renamed, the
\* two means times 100, and Pct_of_Total: one row per level that occurs, in
\* ascending order of the level
StressTable(rows) ==
    LET levels == {rows[i].cells["stress_index"].val : i \in DOMAIN rows}
        ordered == [k \in 1..Cardinality(levels) |->
                       CHOOSE v \in levels : Cardinality({w \in levels : w < v}) = k - 1]
    IN [k \in DOMAIN ordered |->
           LET group == SelectSeq(rows, LAMBDA r : r.cells["stress_index"].val = ordered[k])
               Shipments == Count(Col(group, "is_late")).val
               Late_Deliveries == Sum(Col(group, "is_late")).val \div Dec(1, 0)
           IN [ stress_index |-> ordered[k] \div Dec(1, 0),
                Shipments |-> Shipments,
                Late_Deliveries |-> Late_Deliveries,
                Late_Percentage |-> RoundDiv(100 * Late_Deliveries, Shipments),
                Fulfillment_Rate |->
                    RoundDiv(Sum(Col(group, "order_fulfillment_status")).val, Shipments),
                Pct_of_Total |-> RoundDiv(1000 * Shipments, Len(rows)) ]]

\* Series.corr of two columns, Pearson: NaN for fewer than two rows or a
\* column that does not vary, else the covariance and the two variances that
\* it is computed from, each times n squared
Corr(rows, a, b) ==
    LET n == Len(rows)
        x == [i \in DOMAIN rows |-> rows[i].cells[a].val]
        y == [i \in DOMAIN rows |-> rows[i].cells[b].val]
        sx == SumOver(DOMAIN rows, x)
        sy == SumOver(DOMAIN rows, y)
        cov == n * SumOver(DOMAIN rows, [i \in DOMAIN rows |-> x[i] * y[i]]) - sx * sy
        vx == n * SumOver(DOMAIN rows, [i \in DOMAIN rows |-> x[i] * x[i]]) - sx * sx
        vy == n * SumOver(DOMAIN rows, [i \in DOMAIN rows |-> y[i] * y[i]]) - sy * sy
    IN IF n < 2 \/ vx = 0 \/ vy = 0 THEN NaN ELSE Ok(<<"corr", cov, vx, vy>>)

AnalyzeOperationalStress ==
    /\ At("analyze_operational_stress")
    /\ LET loaded == ReadCsv(file)
           \* the frame with the columns stress_index and is_late
           frame == [i \in DOMAIN loaded |->
                       [loaded[i] EXCEPT !.cells =
                           ("stress_index" :> Ok(Dec(StressIndex(loaded, i), 0)))
                           @@ ("is_late" :>
                                  Flag(Gt(loaded[i].cells["eta_variation_hours"], 0)))
                           @@ loaded[i].cells]]
           table == StressTable(frame)
       IN /\ df' = frame
          /\ columns' = CleanedColumns \o <<"stress_index", "is_late">>
          /\ stress_analysis' = table
          /\ console' = console
                \o << Msg("Dataset",
                          << Len(loaded), Date(Min(Col(loaded, "timestamp"))),
                             Date(Max(Col(loaded, "timestamp"))) >>),
                      Msg("OPERATIONAL STRESS INDEX vs LATE DELIVERIES", table),
                      Msg("KEY INSIGHTS",
                          << Corr(frame, "stress_index", "is_late"),
                             Mean(Col(SelectSeq(frame,
                                 LAMBDA r : Eq(r.cells["stress_index"], 0)), "is_late")),
                             Mean(Col(SelectSeq(frame,
                                 LAMBDA r : r.cells["stress_index"].val >= Dec(3, 0)), "is_late")) >>),
                      Msg("INDIVIDUAL STRESS FACTOR CONTRIBUTION",
                          <<{<<stress_factors[k][1],
                               Cardinality({i \in DOMAIN frame : FactorHolds(k, loaded, i)})>> :
                                 k \in DOMAIN stress_factors}>>),
                      Msg("RECOMMENDATIONS",
                          <<PctOfRows(Cardinality({i \in DOMAIN frame :
                                frame[i].cells["stress_index"].val >= Dec(3, 0)}), frame)>>) >>
    /\ plan' = Tail(plan)
    /\ UNCHANGED <<file, cleaning_report, saved, error, aggregator>>
    /\ UNCHANGED <<stress_summary, now, report_file, analysis_report>>

SaveSummary ==
    /\ At("save_summary")
    /\ LET table == StressTable(df)
           \* df['stress_index'].value_counts().sort_index(): level, count and
           \* the count as a percentage of the records
           stress_dist == [k \in DOMAIN table |->
                              << table[k].stress_index, table[k].Shipments,
                                 RoundDiv(1000 * table[k].Shipments, Len(df)) >>]
       IN stress_summary' =
          [ written |-> TRUE,
            lines |->
               << Len(df),
                  IF Len(df) = 0 THEN NaN
                  ELSE Ok(RoundDiv(Sum(Col(df, "stress_index")).val, Len(df))),
                  IF Len(df) = 0 THEN NaN
                  ELSE Ok(RoundDiv(10 * Sum(Col(df, "is_late")).val, Len(df))),
                  Corr(df, "stress_index", "is_late"),
                  stress_dist >> ]
    /\ console' = Append(console, Msg("Analysis summary saved", <<>>))
    /\ plan' = Tail(plan)
    /\ UNCHANGED <<file, df, columns, cleaning_report, saved, error, aggregator>>
    /\ UNCHANGED <<stress_analysis, now, report_file, analysis_report>>

NextStress ==
    \/ AnalyzeOperationalStress
    \/ SaveSummary

SpecStress == InitStress /\ [][NextStress]_vars

-----------------------------------------------------------------------------
(* The declared domains of the fields, as the specification states them *)

Declared0to10 ==
    {"traffic_congestion_level", "port_congestion_level", "route_risk_level"}

Declared0to1 ==
    { "weather_condition_severity", "supplier_reliability_score",
      "driver_behavior_score", "fatigue_monitoring_score",
      "disruption_likelihood_score", "delay_probability" }

DeclaredNonNegative ==
    { "fuel_consumption_rate", "shipping_costs", "lead_time_days",
      "historical_demand", "loading_unloading_time", "warehouse_inventory_level",
      "customs_clearance_time" }

DeclaredBinary ==
    {"handling_equipment_availability", "order_fulfillment_status", "cargo_condition_status"}

BoundedMetrics ==
    Declared0to10 \cup Declared0to1 \cup DeclaredNonNegative
        \cup {"vehicle_gps_latitude", "vehicle_gps_longitude"}

\* the least value of the field's domain
DeclaredMin(c) ==
    IF c = "vehicle_gps_latitude" THEN -Dec(90, 0)
    ELSE IF c = "vehicle_gps_longitude" THEN -Dec(180, 0)
    ELSE 0

\* the values of the field's domain are at most those of this set (none: no maximum)
DeclaredMax(c) ==
    IF c = "vehicle_gps_latitude" THEN {Dec(90, 0)}
    ELSE IF c = "vehicle_gps_longitude" THEN {Dec(180, 0)}
    ELSE IF c \in Declared0to10 THEN {Dec(10, 0)}
    ELSE IF c \in Declared0to1 \cup DeclaredBinary THEN {Dec(1, 0)}
    ELSE {}

InDeclaredRange(c, cell) ==
    /\ cell.kind = "ok"
    /\ cell.val >= DeclaredMin(c)
    /\ \A m \in DeclaredMax(c) : cell.val <= m

IsBinary(cell) == cell = Ok(0) \/ cell = Ok(Dec(1, 0))

Printed(text) == \E k \in DOMAIN console : console[k].text = text

\* the number a message printed by the step console -> console' reports, 0 if none
Reported(text) ==
    LET added == {k \in DOMAIN console' : k > Len(console) /\ console'[k].text = text}
    IN IF added = {} THEN 0 ELSE console'[CHOOSE k \in added : TRUE].args[1]

Indices(rows) == {rows[i].index : i \in DOMAIN rows}
RowAt(rows, idx) == rows[CHOOSE i \in DOMAIN rows : rows[i].index = idx]
InIndexOrder(rows) ==
    \A i, j \in DOMAIN rows : i < j => rows[i].index < rows[j].index

Abs(x) == IF x < 0 THEN -x ELSE x

-----------------------------------------------------------------------------
(* C1 *)

\* C1: in the saved dataset every cell of a bounded metric is a value inside
\* the declared range of its field, and none is null.
C1_BoundedMetricsInRange ==
    saved.written =>
        \A i \in DOMAIN saved.rows : \A c \in DOMAIN saved.rows[i] :
            c \in BoundedMetrics => InDeclaredRange(c, saved.rows[i][c])

(* C2 *)

\* C2: in the saved dataset every cell of a binary field is exactly 0 or 1.
C2_BinaryFieldsAreBinary ==
    saved.written =>
        \A i \in DOMAIN saved.rows : \A c \in DOMAIN saved.rows[i] :
            c \in DeclaredBinary => IsBinary(saved.rows[i][c])

(* C3 *)

\* C3: the saved dataset never holds two records that are equal in all fields.
C3_NoDuplicateRecords ==
    saved.written =>
        \A i, j \in DOMAIN saved.rows : i # j => saved.rows[i] # saved.rows[j]

(* C4 *)

\* C4: a step of the second run of the Resolver changes no cell and removes no
\* row: it sets duplicates_removed to 0 and prints no removal of rows.
C4_ResolverIdempotent ==
    [][SecondRun =>
          /\ df' = df
          /\ Reported("Removed rows with critical missing values") = 0
          /\ Reported("Removed duplicate rows") = 0
          /\ plan' = <<>> => cleaning_report'.duplicates_removed = 0]_vars

\* both runs are over and the first one dropped rows for both reasons
C4_Witness ==
    /\ plan = <<>>
    /\ df # <<>>
    /\ Printed("Removed rows with critical missing values")
    /\ Printed("Removed duplicate rows")

(* C5 *)

\* C5: remove_duplicates keeps, of the rows equal in all fields, the first one
\* in input order and only it, keeps the order of the rows, and stores the
\* number of rows it dropped in duplicates_removed.
C5_KeepsFirstOccurrence ==
    [][At("remove_duplicates") =>
          /\ Range(df') \subseteq Range(df)
          /\ InIndexOrder(df')
          /\ \A i, j \in DOMAIN df' : i # j => df'[i].cells # df'[j].cells
          /\ \A i \in DOMAIN df : \E k \in DOMAIN df' :
                 df'[k].cells = df[i].cells /\ df'[k].index <= df[i].index
          /\ cleaning_report'.duplicates_removed = Len(df) - Len(df')]_vars

\* remove_duplicates has dropped a row and kept rows that differ
C5_Witness ==
    /\ At("validate_ranges")
    /\ cleaning_report.duplicates_removed > 0
    /\ Len(df) > 1

(* C6 *)

\* the columns analyze_data_types converts
Converted ==
    {"timestamp"} \cup numeric_columns \cup DeclaredBinary

\* C6: analyze_data_types raises nothing and keeps every row; a cell of a
\* converted column that does not parse becomes null and every other cell
\* keeps its value; the pipeline goes on to the next stage.
C6_UnparsableBecomesNull ==
    [][At("analyze_data_types") =>
          /\ error' = "none"
          /\ plan' = Tail(plan)
          /\ Len(df') = Len(df)
          /\ \A i \in DOMAIN df :
                /\ df'[i].index = df[i].index
                /\ DOMAIN df'[i].cells = DOMAIN df[i].cells
                /\ \A c \in DOMAIN df[i].cells :
                      IF c \in Converted /\ df[i].cells[c].kind # "ok"
                      THEN IsNull(df'[i].cells[c])
                      ELSE df'[i].cells[c] = df[i].cells[c]]_vars

\* a text that does not parse has become null in a row whose timestamp parsed
C6_Witness ==
    /\ At("check_missing_values")
    /\ \E i \in DOMAIN df : \E c \in DOMAIN df[i].cells :
          /\ file[i][c] = Bad
          /\ IsNull(df[i].cells[c])
          /\ df[i].cells["timestamp"].kind = "ok"

(* C7 *)

Critical == {"timestamp", "vehicle_gps_latitude", "vehicle_gps_longitude"}

HasCritical(r) == \A c \in Critical : ~IsNull(r.cells[c])

\* C7: handle_missing_values drops the rows with a null timestamp, latitude or
\* longitude and no other row, keeps the order of the rest, and leaves the
\* timestamp and the geocoordinates of the rows it keeps as they were.
C7_DropsCriticalMissing ==
    [][At("handle_missing_values") =>
          /\ Indices(df') = {df[i].index : i \in {k \in DOMAIN df : HasCritical(df[k])}}
          /\ Len(df') = Cardinality(Indices(df'))
          /\ InIndexOrder(df')
          /\ \A k \in DOMAIN df' :
                /\ HasCritical(df'[k])
                /\ \A c \in Critical :
                      df'[k].cells[c] = RowAt(df, df'[k].index).cells[c]]_vars

\* rows were dropped for a null timestamp and for a null geocoordinate, and a
\* row is left
C7_Witness ==
    /\ At("remove_duplicates")
    /\ df # <<>>
    /\ Printed("Removed rows with critical missing values")
    /\ \E i \in DOMAIN file : file[i]["timestamp"].kind # "ok"
    /\ \E i \in DOMAIN file :
          /\ file[i]["timestamp"].kind = "ok"
          /\ file[i]["vehicle_gps_latitude"].kind # "ok"

(* C8 *)

\* the median of the values of a column, stated on the multiset of values:
\* a value v with at most half of the values below it and at most half above,
\* or the midpoint of the two values that split the values in halves
IsMedian(vals, m) ==
    LET n == Len(vals)
        below(x) == Cardinality({k \in DOMAIN vals : vals[k] < x})
        above(x) == Cardinality({k \in DOMAIN vals : vals[k] > x})
    IN \/ m \in Range(vals) /\ 2 * below(m) < n /\ 2 * above(m) < n
       \/ \E a, b \in Range(vals) :
             /\ a <= b /\ 2 * m = a + b
             /\ 2 * Cardinality({k \in DOMAIN vals : vals[k] <= a}) = n
             /\ 2 * Cardinality({k \in DOMAIN vals : vals[k] >= b}) = n

\* C8: after handle_missing_values no cell of a numeric column is null: a cell
\* that was null holds the median of the column's values over the rows kept, a
\* cell that was not null is unchanged, and the number of filled cells printed
\* is the number of cells that went from null to a value.
C8_MedianImputation ==
    [][At("handle_missing_values") =>
          LET numeric == {c \in Range(columns) : NumericDtype(c)}
              kept == [k \in DOMAIN df' |-> RowAt(df, df'[k].index)]
              changed == {<<k, c>> \in (DOMAIN df') \X Range(columns) :
                             IsNull(kept[k].cells[c]) /\ ~IsNull(df'[k].cells[c])}
          IN /\ \A k \in DOMAIN df' : \A c \in numeric :
                    /\ ~IsNull(df'[k].cells[c])
                    /\ IF IsNull(kept[k].cells[c])
                       THEN IsMedian(NonNull(Col(kept, c)), df'[k].cells[c].val)
                       ELSE df'[k].cells[c] = kept[k].cells[c]
             /\ Reported("Filled missing values") = Cardinality(changed)]_vars

(* C9 *)

\* what a validation stage may do to a cell of column c
Corrected(c, old, new) ==
    IF old.kind = "ok" /\ c \in BoundedMetrics \cup DeclaredBinary
       /\ old.val < DeclaredMin(c)
    THEN new = Ok(DeclaredMin(c))
    ELSE IF old.kind = "ok" /\ c \in BoundedMetrics \cup DeclaredBinary
            /\ \E m \in DeclaredMax(c) : old.val > m
    THEN \E m \in DeclaredMax(c) : new = Ok(m)
    ELSE new = old

\* the value of {0, 1} nearest to a value between them
NearestBinary(c, old, new) ==
    IF c \in DeclaredBinary /\ old.kind = "ok" /\ ~IsBinary(old)
    THEN /\ IsBinary(new)
         /\ \A b \in {0, Dec(1, 0)} : Abs(new.val - old.val) <= Abs(b - old.val)
    ELSE new = old

SameShape(old, new) ==
    /\ Len(new) = Len(old)
    /\ \A i \in DOMAIN old :
          /\ new[i].index = old[i].index
          /\ DOMAIN new[i].cells = DOMAIN old[i].cells

\* C9: validate_ranges and validate_binary_fields keep every row; a cell
\* outside the domain of its field becomes the nearest bound of the domain,
\* and every other cell, those of fields without a domain too, is unchanged.
C9_ValidationFrame ==
    [][/\ At("validate_ranges") =>
             /\ SameShape(df, df')
             /\ \A i \in DOMAIN df : \A c \in DOMAIN df[i].cells :
                    Corrected(c, df[i].cells[c], df'[i].cells[c])
       /\ At("validate_binary_fields") =>
             /\ SameShape(df, df')
             /\ \A i \in DOMAIN df : \A c \in DOMAIN df[i].cells :
                    NearestBinary(c, df[i].cells[c], df'[i].cells[c])]_vars

\* both stages have corrected a cell, in a dataset of several rows
C9_Witness ==
    /\ At("validate_geospatial")
    /\ Len(df) > 1
    /\ Printed("Corrected values outside valid ranges")
    /\ Printed("Corrected binary field values")

(* C10 *)

InPercentRange(score) ==
    score.den > 0 /\ 0 <= score.num /\ score.num <= 100 * score.den

\* C10: the scores stored for a dataset that is not empty are all in [0, 100].
C10_ScoresInRange ==
    (cleaning_report.stored /\ df # <<>>) =>
        /\ InPercentRange(cleaning_report.completeness)
        /\ InPercentRange(cleaning_report.uniqueness)
        /\ InPercentRange(cleaning_report.validity)
        /\ InPercentRange(cleaning_report.consistency)
        /\ InPercentRange(cleaning_report.outlier_pct)
        /\ InPercentRange(cleaning_report.data_quality_score)

\* the scores are stored for a dataset in which outliers were found and cells
\* corrected, so that the scores are not all 100
C10_Witness ==
    /\ cleaning_report.stored
    /\ df # <<>>
    /\ cleaning_report.outlier_pct.num > 0
    /\ cleaning_report.validity.num < 100 * cleaning_report.validity.den
    /\ cleaning_report.completeness.num > 0
    /\ cleaning_report.data_quality_score.num < 100 * cleaning_report.data_quality_score.den

(* C11 *)

IsHundred(score) == score.den > 0 /\ score.num = 100 * score.den

\* C11: when the input has no row, or every row was dropped, so that a
\* denominator of a percentage is zero, calculate_data_quality_score raises no
\* error, stores 100 for each ratio with a zero denominator and the pipeline
\* goes on to the next stage.
C11_ZeroDenominatorIsHundred ==
    [][(At("calculate_data_quality_score") /\ df = <<>>) =>
          /\ error' = "none"
          /\ plan' = Tail(plan)
          /\ cleaning_report'.stored
          /\ IsHundred(cleaning_report'.completeness)
          /\ IsHundred(cleaning_report'.validity)
          /\ IsHundred(cleaning_report'.consistency)
          /\ cleaning_report.original_rows = 0 =>
                 IsHundred(cleaning_report'.uniqueness)]_vars

(* C12 *)

\* C12: detect_outliers and calculate_data_quality_score change no row, column
\* or cell, and every record the IQR rule flags stays, with its value, through
\* the later stages and into the saved output.
C12_OutliersKept ==
    [][/\ (At("detect_outliers") \/ At("calculate_data_quality_score")) =>
             df' = df /\ columns' = columns
       /\ (At("detect_outliers") \/ At("create_data_quality_flags")
              \/ At("calculate_data_quality_score") \/ At("save_cleaned_data")) =>
             /\ Len(df') = Len(df)
             /\ \A i \in Flagged(df, columns) : \A c \in Range(columns) :
                    df'[i].cells[c] = df[i].cells[c]
       /\ At("save_cleaned_data") =>
             /\ Len(saved'.rows) = Len(df)
             /\ \A i \in Flagged(df, columns) : \A c \in Range(outlier_check_cols) :
                    Contains(columns, c) => saved'.rows[i][c] = df[i].cells[c]]_vars

\* the dataset was saved with a record in it that detect_outliers reported
C12_Witness ==
    /\ saved.written
    /\ Printed("Detected outliers - kept for analysis")
    /\ \E i \in Flagged(df, columns) :
          saved.rows[i]["fuel_consumption_rate"] = Ok(Dec(1000, 0))

(* C13 *)

\* the number of cells of field c that a step df -> df' changes
ChangedIn(c) ==
    Cardinality({i \in DOMAIN df : df'[i].cells[c] # df[i].cells[c]})

\* C13: after validate_ranges the cleaning report holds, for each field in
\* which a value was corrected, the number of values corrected in that field,
\* and these counts sum to the total number of corrected cells.
C13_PerFieldCounts ==
    [][At("validate_ranges") =>
          LET V == Validated(columns)
              entries == cleaning_report'.invalid_ranges
              fields == {x \in entries : x[1] \in V}
          IN /\ \A c \in V : ChangedIn(c) > 0 => <<c, ChangedIn(c)>> \in entries
             /\ SumOver(fields, [x \in fields |-> x[2]])
                    = SumOver(V, [c \in V |-> ChangedIn(c)])]_vars

(* C14 *)

\* the numbers of the message about removed rows that a step prints
ReportedDrops ==
    LET added == {k \in DOMAIN console' :
                     /\ k > Len(console)
                     /\ console'[k].text = "Removed rows with critical missing values"}
    IN IF added = {} THEN <<>> ELSE console'[CHOOSE k \in added : TRUE].args

\* C14: handle_missing_values reports the number of rows dropped for a null
\* timestamp and the number dropped for a null geocoordinate as two numbers,
\* which sum to the number of rows it removed, and reports the imputed cells.
C14_DropsByReason ==
    [][At("handle_missing_values") =>
          LET no_ts == {i \in DOMAIN df : IsNull(df[i].cells["timestamp"])}
              no_gps == {i \in DOMAIN df \ no_ts :
                            \/ IsNull(df[i].cells["vehicle_gps_latitude"])
                            \/ IsNull(df[i].cells["vehicle_gps_longitude"])}
              removed == Len(df) - Len(df')
              filled == {k \in DOMAIN df' : \E c \in Range(columns) :
                            /\ IsNull(RowAt(df, df'[k].index).cells[c])
                            /\ ~IsNull(df'[k].cells[c])}
          IN /\ Cardinality(no_ts) + Cardinality(no_gps) = removed
             /\ removed > 0 =>
                   \E a, b \in DOMAIN ReportedDrops :
                       /\ a # b
                       /\ ReportedDrops[a] = Cardinality(no_ts)
                       /\ ReportedDrops[b] = Cardinality(no_gps)
             /\ filled # {} => Reported("Filled missing values") > 0]_vars

(* C15 *)

ExampleFuel == <<-Dec(2, 0), Dec(5, 0), Dec(5, 0), Dec(1000, 0), Dec(5, 0)>>

\* the input is the example: 5 distinct records with these fuel rates
IsExample ==
    /\ Len(file) = 5
    /\ \A i \in DOMAIN file : file[i]["fuel_consumption_rate"] = Ok(ExampleFuel[i])
    /\ \A i, j \in DOMAIN file : i # j => file[i] # file[j]

\* C15: for 5 distinct records with fuel_consumption_rate -2, 5, 5, 1000, 5,
\* validate_ranges leaves 0, 5, 5, 1000, 5 in the column, detect_outliers
\* flags the record with 1000 and all 5 records are there after it.
C15_FuelExample ==
    [][IsExample =>
          /\ At("validate_ranges") =>
                Col(df', "fuel_consumption_rate")
                    = <<Ok(0), Ok(Dec(5, 0)), Ok(Dec(5, 0)), Ok(Dec(1000, 0)), Ok(Dec(5, 0))>>
          /\ At("detect_outliers") =>
                /\ \E i \in Outliers(df, "fuel_consumption_rate") :
                       df[i].cells["fuel_consumption_rate"] = Ok(Dec(1000, 0))
                /\ Reported("Detected outliers - kept for analysis") > 0
                /\ Len(df') = 5
                /\ \E i \in DOMAIN df' :
                       df'[i].cells["fuel_consumption_rate"] = Ok(Dec(1000, 0))]_vars

\* the outlier check has run on the example
C15_Witness ==
    /\ IsExample
    /\ At("create_data_quality_flags")
    /\ Len(df) = 5
    /\ Printed("Corrected values outside valid ranges")
    /\ Printed("Detected outliers - kept for analysis")

(* C16 *)

\* C16: in analyze_temporal_discrepancy the records within the declared range,
\* those beyond its end and those before its start are disjoint groups that
\* cover the dataset: within_count + beyond_count + the number before = total.
C16_TemporalPartition ==
    [][At("analyze_temporal_discrepancy") =>
          LET before == {df[i].index : i \in {k \in DOMAIN df :
                            Lt(df[k].cells["timestamp"], Timestamp(2021, 1, 1, 0))}}
              within == Indices(WithinDeclared(df))
              beyond == Indices(BeyondDeclared(df))
          IN /\ temporal_report'.within_count + temporal_report'.beyond_count
                    + Cardinality(before) = Len(df)
             /\ temporal_report'.within_count = Cardinality(within)
             /\ temporal_report'.beyond_count = Cardinality(beyond)
             /\ within \cap beyond = {}
             /\ within \cap before = {}
             /\ beyond \cap before = {}
             /\ within \cup beyond \cup before = Indices(df)]_vars

\* the analysis has counted a dataset with a record in each group, one of them
\* at the declared end
C16_Witness ==
    /\ temporal_report.written
    /\ temporal_report.within_count > 0
    /\ temporal_report.beyond_count > 0
    /\ \E i \in DOMAIN df : Lt(df[i].cells["timestamp"], Timestamp(2021, 1, 1, 0))
    /\ \E i \in DOMAIN df : Eq(df[i].cells["timestamp"], Timestamp(2024, 1, 31, 0))

(* C17 *)

\* a timestamp on a day from 2021-01-01 through 2024-01-31, at any hour
InJan2021ToJan2024(cell) ==
    /\ cell.kind = "ok"
    /\ cell.val >= Timestamp(2021, 1, 1, 0)
    /\ cell.val <= Timestamp(2024, 1, 31, 23)

\* C17: filter_to_declared_range keeps the records with a timestamp on a day
\* from 2021-01-01 through 2024-01-31, at any hour, and no other record, and
\* analyze_temporal_discrepancy counts these records as within, not beyond.
C17_InclusiveDeclaredRange ==
    [][/\ At("filter_to_declared_range") =>
             /\ Indices(df_filtered') =
                    {df[i].index : i \in {k \in DOMAIN df :
                        InJan2021ToJan2024(df[k].cells["timestamp"])}}
             /\ Range(df_filtered') \subseteq Range(df)
       /\ At("analyze_temporal_discrepancy") =>
             /\ temporal_report'.within_count =
                    Cardinality({k \in DOMAIN df :
                        InJan2021ToJan2024(df[k].cells["timestamp"])})
             /\ temporal_report'.beyond_count =
                    Cardinality({k \in DOMAIN df :
                        Gt(df[k].cells["timestamp"], Timestamp(2024, 1, 31, 23))})]_vars

(* C18 *)

\* does the step console -> console' print a message with this text
PrintedNow(text) ==
    \E k \in DOMAIN console' : k > Len(console) /\ console'[k].text = text

\* the extension is reported exactly when a record lies beyond the declared
\* end, and is the difference of the calendar months of the latest timestamp
\* and of January 2024
MonthDeltaReported ==
    LET latest == Max(Col(df, "timestamp"))
    IN /\ PrintedNow("TEMPORAL DISCREPANCY DETECTED")
              <=> temporal_report'.beyond_count > 0
       /\ PrintedNow("TEMPORAL DISCREPANCY DETECTED") =>
              Reported("TEMPORAL DISCREPANCY DETECTED")
                  = 12 * (YearOf(latest.val) - 2024) + (MonthOf(latest.val) - 1)

\* C18 as stated: for a dataset whose latest timestamp is 2024-03-15 the
\* analysis finds beyond_count > 0 and months_beyond = 1; months_beyond is the
\* month-delta and is computed only when a record lies beyond the declared end.
C18_MonthsBeyondIsOne ==
    [][At("analyze_temporal_discrepancy") =>
          /\ MonthDeltaReported
          /\ Max(Col(df, "timestamp")) = Ok(Timestamp(2024, 3, 15, 0)) =>
                 /\ temporal_report'.beyond_count > 0
                 /\ Reported("TEMPORAL DISCREPANCY DETECTED") = 1]_vars

\* C18 amended: for a dataset whose latest timestamp is 2024-03-15 the
\* analysis finds beyond_count > 0 and months_beyond = 2 (March - January);
\* months_beyond is the month-delta and is computed only when a record lies
\* beyond the declared end.
C18_MonthsBeyondIsTwo ==
    [][At("analyze_temporal_discrepancy") =>
          /\ MonthDeltaReported
          /\ Max(Col(df, "timestamp")) = Ok(Timestamp(2024, 3, 15, 0)) =>
                 /\ temporal_report'.beyond_count > 0
                 /\ Reported("TEMPORAL DISCREPANCY DETECTED") = 2]_vars

\* the analysis has run on a dataset whose latest timestamp is 2024-03-15
C18_Witness ==
    /\ temporal_report.written
    /\ temporal_report.actual_end = Ok(Timestamp(2024, 3, 15, 0))
    /\ temporal_report.within_count > 0
    /\ Printed("TEMPORAL DISCREPANCY DETECTED")

(* C19 *)

\* no record of the file is in the declared range; the empty file is one case
NoneInRange ==
    \A i \in DOMAIN file : ~InJan2021ToJan2024(file[i]["timestamp"])

\* C19: when no loaded record lies in the declared range, load_data,
\* analyze_temporal_discrepancy and filter_to_declared_range raise nothing and
\* go on to the next stage; within_count is 0, df_filtered is the empty
\* dataset and the number of filtered rows printed is 0.
C19_EmptyResultIsValid ==
    [][NoneInRange =>
          /\ (At("aggregator.load_data") \/ At("analyze_temporal_discrepancy")
                \/ At("filter_to_declared_range")) =>
                 error' = "none" /\ plan' = Tail(plan)
          /\ At("aggregator.load_data") => Len(df') = Len(file)
          /\ At("analyze_temporal_discrepancy") =>
                 /\ temporal_report'.written
                 /\ temporal_report'.within_count = 0
          /\ At("filter_to_declared_range") =>
                 /\ df_filtered' = <<>>
                 /\ PrintedNow("Filtered dataset")
                 /\ Reported("Filtered dataset") = 0
                 /\ Reported("Removed rows outside declared range") = Len(df)]_vars

\* the three stages are over for a dataset with records, none of them in the
\* declared range
C19_Witness ==
    /\ NoneInRange
    /\ plan = <<>>
    /\ error = "none"
    /\ df # <<>>
    /\ df_filtered = <<>>
    /\ temporal_report.written
    /\ temporal_report.beyond_count > 0

(* C20 *)

\* C20: the predicate of filter_to_declared_range applied to df_filtered
\* returns df_filtered: the same records in the same order, none removed.
C20_FilterIdempotent ==
    [][At("filter_to_declared_range") =>
          LET again == WithinDeclared(df_filtered')
          IN /\ again = df_filtered'
             /\ Len(df_filtered') - Len(again) = 0]_vars

\* the filter has removed records before the start and beyond the end and
\* kept several
C20_Witness ==
    /\ plan = <<>>
    /\ error = "none"
    /\ Len(df_filtered) > 1
    /\ \E i \in DOMAIN df : Lt(df[i].cells["timestamp"], declared_start)
    /\ \E i \in DOMAIN df : Gt(df[i].cells["timestamp"], declared_end)

-----------------------------------------------------------------------------
(* C21 *)

\* the record count of row k of an aggregated table
RecordCount(table, count_name, k) == table[k].cells[<<count_name>>].val

\* no count of the table is zero, the counts add up to the filtered records,
\* and the bin of every filtered record has its row
CountsRecords(table, count_name, key_name, rule) ==
    /\ \A k \in DOMAIN table : RecordCount(table, count_name, k) > 0
    /\ SumOver(DOMAIN table,
               [k \in DOMAIN table |-> RecordCount(table, count_name, k)])
          = Len(df_filtered)
    /\ \A i \in DOMAIN df_filtered :
          \E k \in DOMAIN table :
              table[k].cells[<<key_name>>]
                  = Ok(BinLabel(rule, df_filtered[i].cells["timestamp"].val))

\* C21: after aggregate_daily and after aggregate_weekly, the record counts
\* of the emitted buckets add up to the number of records of df_filtered, no
\* emitted bucket has a record count of 0, and every bucket that holds a
\* filtered record is emitted
C21_CountsPartitionRecords ==
    [][ /\ (At("aggregate_daily") /\ error' = "none")
            => CountsRecords(df_daily', "daily_record_count", "date", "D")
        /\ (At("aggregate_weekly") /\ error' = "none")
            => CountsRecords(df_weekly', "weekly_record_count", "week_start", "W-MON")
      ]_vars

\* both aggregations have run on four records of three days and two weeks, with
\* days and weeks without records between the first and the last record
C21_Witness ==
    /\ plan = <<"print_summary">>
    /\ Len(df_filtered) = 4
    /\ Len(df_daily) = 3
    /\ Len(df_weekly) = 2
    /\ \E k \in DOMAIN df_daily : RecordCount(df_daily, "daily_record_count", k) = 2

-----------------------------------------------------------------------------
(* C22 *)

\* the keys of the table increase strictly from each row to the next
StrictlyAscending(table, key_name) ==
    \A j, k \in DOMAIN table :
        j < k => table[j].cells[<<key_name>>].val < table[k].cells[<<key_name>>].val

\* C22: the rows that aggregate_daily and aggregate_weekly emit are in
\* strictly ascending order of their bucket key, so that no key occurs twice,
\* whatever the order of the records in the input file
C22_BucketsAscending ==
    [][ /\ At("aggregate_daily") => StrictlyAscending(df_daily', "date")
        /\ At("aggregate_weekly") => StrictlyAscending(df_weekly', "week_start")
      ]_vars

\* records read in descending order of time were aggregated into several
\* days and several weeks
C22_Witness ==
    /\ plan = <<"save_datasets", "print_summary">>
    /\ Len(df_filtered) = 3
    /\ \A i, j \in DOMAIN df_filtered :
          i < j => df_filtered[i].cells["timestamp"].val
                       > df_filtered[j].cells["timestamp"].val
    /\ Len(df_daily) = 3
    /\ Len(df_weekly) = 2

-----------------------------------------------------------------------------
(* C23 *)

\* timestamp t lies in the seven days that begin at key
InWeekFrom(key, t) == key <= t /\ t < AddDays(key, 7)

\* C23: after aggregate_weekly every filtered record is counted in one bucket
\* whose week_start is the Monday 00:00 that begins the record's week: the
\* key is not later than the record, the record is less than 7 days after
\* it, and the bucket counts the records of those seven days
C23_WeekStartTruncation ==
    [][ At("aggregate_weekly") =>
          \A i \in DOMAIN df_filtered :
              \E k \in DOMAIN df_weekly' :
                  LET key == df_weekly'[k].cells[<<"week_start">>].val
                  IN /\ Weekday(key) = 0
                     /\ key % 24 = 0
                     /\ InWeekFrom(key, df_filtered[i].cells["timestamp"].val)
                     /\ RecordCount(df_weekly', "weekly_record_count", k)
                           = Cardinality({j \in DOMAIN df_filtered :
                                 InWeekFrom(key, df_filtered[j].cells["timestamp"].val)})
      ]_vars

-----------------------------------------------------------------------------
(* C24 *)

\* C24: a script run again on the same unchanged input writes output files
\* with the same content; for the plain-text report of the bottleneck
\* analysis, the second save_analysis_report leaves the file as the first
\* run wrote it
C24_ReportRewrittenIdentical ==
    [][ (At("save_analysis_report") /\ report_file.written)
            => report_file' = report_file ]_vars

-----------------------------------------------------------------------------
(* C25 *)

\* the flag columns whose source column is a column of the input file
ExpectedFlags ==
    {quality_flags[k][1] : k \in {j \in DOMAIN quality_flags :
                                      Contains(FileColumns, quality_flags[j][2])}}

\* the source column of a flag column
SourceOf(flag) ==
    quality_flags[CHOOSE k \in DOMAIN quality_flags : quality_flags[k][1] = flag][2]

\* C25: the cleaned CSV has every column of the input file in the input's
\* order, followed only by the flag columns whose source column is in the
\* input, each once; and every flag cell is 0 or 1 and is the test of its
\* flag on the value that the same saved row has in the source column
C25_SchemaAndFlags ==
    saved.written =>
        /\ Len(saved.columns) = Len(FileColumns) + Cardinality(ExpectedFlags)
        /\ SubSeq(saved.columns, 1, Len(FileColumns)) = FileColumns
        /\ {saved.columns[k] : k \in (Len(FileColumns) + 1)..Len(saved.columns)}
              = ExpectedFlags
        /\ \A i \in DOMAIN saved.rows :
              /\ DOMAIN saved.rows[i] = Range(saved.columns)
              /\ \A flag \in ExpectedFlags :
                    /\ saved.rows[i][flag] \in {Ok(0), Ok(Dec(1, 0))}
                    /\ saved.rows[i][flag]
                          = FlagValue(flag, saved.rows[i][SourceOf(flag)])

\* a file was saved whose first record had no fuel rate and was imputed
\* with a rate that raises its flag
C25_Witness ==
    /\ saved.written
    /\ file # <<>>
    /\ file[1]["fuel_consumption_rate"] = NaN
    /\ saved.rows # <<>>
    /\ saved.rows[1]["fuel_consumption_rate"] = Ok(Dec(1000, 0))
    /\ saved.rows[1]["flag_high_fuel_consumption"] = Ok(Dec(1, 0))
    /\ saved.rows[1]["flag_extreme_temperature"] = Ok(0)

-----------------------------------------------------------------------------
(* C26 *)

\* the number of cells of the rows old that the rows new hold another value in
ChangedCells(old, new) ==
    Cardinality({<<i, c>> \in (DOMAIN old) \X Range(columns) :
                    old[i].cells[c] # new[i].cells[c]})

\* C26: the correction total that Validity is computed from is the number of
\* cells that the validation stages changed: validate_ranges leaves in it the
\* cells it clamped, validate_binary_fields adds the cells it rounded, and
\* calculate_data_quality_score divides it by rows times columns
C26_ValidityCountsEveryCorrection ==
    [][ /\ At("validate_ranges")
            => RangeTotal(cleaning_report') = ChangedCells(df, df')
        /\ At("validate_binary_fields")
            => RangeTotal(cleaning_report')
                  = RangeTotal(cleaning_report) + ChangedCells(df, df')
        /\ (At("calculate_data_quality_score") /\ error' = "none")
            => cleaning_report'.validity
                  = PctWithout(RangeTotal(cleaning_report), Len(df) * Len(columns))
      ]_vars

-----------------------------------------------------------------------------
(* C27 *)

\* the outlier-check columns that the dataset has
Checked(cols) == {c \in Range(outlier_check_cols) : Contains(cols, c)}

\* two fractions of the same value
SameRate(a, b) == a.num * b.den = b.num * a.den

\* C27: the outlier rate that calculate_data_quality_score stores is the
\* number of flagged observations over rows times the number of metrics that
\* were checked, the columns present among the six, times 100
C27_OutlierRateOverChecked ==
    [][ (At("calculate_data_quality_score") /\ error' = "none") =>
            SameRate(cleaning_report'.outlier_pct,
                     Pct(TotalOutliers(df, columns),
                         Len(df) * Cardinality(Checked(columns)))) ]_vars

-----------------------------------------------------------------------------
(* C28 *)

\* the number of rows that handle_missing_values printed as removed, 0 when
\* it printed none
RowsReportedRemoved ==
    LET found == {k \in DOMAIN console :
                     console[k].text = "Removed rows with critical missing values"}
    IN IF found = {} THEN 0 ELSE console[CHOOSE k \in found : TRUE].args[1]

\* C28: original_rows is the number of rows read; handle_missing_values drops
\* the rows with a null timestamp or geocoordinate and no other;
\* remove_duplicates drops duplicates_removed rows; no other stage changes the
\* number of rows; and final_rows, the number of rows saved, is original_rows
\* less those two numbers, and not above original_rows
C28_RowAccounting ==
    [][ /\ At("load_data") => cleaning_report'.original_rows = Len(df')
        /\ At("handle_missing_values")
            => /\ Len(df') = Len(df) - Cardinality({i \in DOMAIN df : ~HasCritical(df[i])})
               /\ Len(df') = Len(df) - RowsReportedRemoved'
        /\ At("remove_duplicates")
            => Len(df') = Len(df) - cleaning_report'.duplicates_removed
        /\ (plan # <<>> /\ Head(plan) \notin
                {"load_data", "handle_missing_values", "remove_duplicates"})
            => Len(df') = Len(df)
        /\ At("save_cleaned_data")
            => /\ cleaning_report'.final_rows = Len(saved'.rows)
               /\ cleaning_report'.final_rows
                     = cleaning_report.original_rows - RowsReportedRemoved
                           - cleaning_report.duplicates_removed
               /\ cleaning_report'.final_rows <= cleaning_report.original_rows
      ]_vars

\* a file of three rows was saved as one row: one row was dropped for a
\* missing critical value and one as a duplicate
C28_Witness ==
    /\ saved.written
    /\ cleaning_report.original_rows = 3
    /\ RowsReportedRemoved = 1
    /\ cleaning_report.duplicates_removed = 1
    /\ cleaning_report.final_rows = 1

-----------------------------------------------------------------------------
(* C29 *)

\* the records, a sequence of rows of cells, are in non-decreasing order of
\* their timestamps
InTimestampOrder(records) ==
    \A i, j \in DOMAIN records :
        i < j => /\ records[i]["timestamp"].kind = "ok"
                 /\ records[j]["timestamp"].kind = "ok"
                 /\ records[i]["timestamp"].val <= records[j]["timestamp"].val

\* every record occurs as often in one sequence as in the other
SameRecords(old, new) ==
    /\ Len(old) = Len(new)
    /\ \A x \in Range(old) \cup Range(new) :
          Cardinality({i \in DOMAIN old : old[i] = x})
              = Cardinality({i \in DOMAIN new : new[i] = x})

\* C29: validate_temporal only reorders the rows, the records before and
\* after it being the same multiset, and leaves them in non-decreasing
\* timestamp order; the records that save_cleaned_data writes are in
\* non-decreasing timestamp order, whatever the order of the input file
C29_SortedByTimestamp ==
    [][ /\ At("validate_temporal")
            => /\ SameRecords(Cells(df), Cells(df'))
               /\ InTimestampOrder(Cells(df'))
        /\ At("save_cleaned_data") => InTimestampOrder(saved'.rows)
      ]_vars

\* a file whose first record is later than its second was saved with the
\* earlier record first
C29_Witness ==
    /\ saved.written
    /\ Len(file) = 3
    /\ file[1]["timestamp"] = Ok(10)
    /\ file[2]["timestamp"] = Ok(5)
    /\ Len(saved.rows) = 3
    /\ saved.rows[1]["timestamp"] = Ok(5)
    /\ saved.rows[3]["timestamp"] = Ok(10)

-----------------------------------------------------------------------------
(* C30 *)

\* the stress factors that are true of row i of the file as read
FactorsTrue(i) == {k \in DOMAIN stress_factors : FactorHolds(k, ReadCsv(file), i)}

\* C30: analyze_operational_stress gives every record a stress_index that is
\* the number of the six stress factors true of it, an integer from 0 to 6;
\* the Shipments of the levels of stress_analysis add up to the number of
\* records; and no level has more Late_Deliveries than Shipments
C30_StressIndexCountsFactors ==
    [][ At("analyze_operational_stress") =>
          /\ Len(df') = Len(file)
          /\ \A i \in DOMAIN df' :
                /\ df'[i].cells["stress_index"] = Ok(Dec(Cardinality(FactorsTrue(i)), 0))
                /\ df'[i].cells["stress_index"] \in {Ok(Dec(k, 0)) : k \in 0..6}
          /\ SumOver(DOMAIN stress_analysis',
                     [k \in DOMAIN stress_analysis' |-> stress_analysis'[k].Shipments])
                = Len(file)
          /\ \A k \in DOMAIN stress_analysis' :
                stress_analysis'[k].Late_Deliveries <= stress_analysis'[k].Shipments
      ]_vars

\* three records were analysed: one with no factor, one with all six, and
\* the level of one of them has a shipment that is not late
C30_Witness ==
    /\ plan = <<"save_summary">>
    /\ Len(df) = 3
    /\ \E i \in DOMAIN df : df[i].cells["stress_index"] = Ok(0)
    /\ \E i \in DOMAIN df : df[i].cells["stress_index"] = Ok(Dec(6, 0))
    /\ \E k \in DOMAIN stress_analysis :
          stress_analysis[k].Late_Deliveries < stress_analysis[k].Shipments
    /\ \E k \in DOMAIN stress_analysis : stress_analysis[k].Late_Deliveries > 0

====
